---- MODULE Spec2Model ----
(***************************************************************************)
(* Player Valuation Engine (apps/api/src/valuation.ts) and the API server  *)
(* functions that feed it (fetchNBAData, the valuation route).             *)
(*                                                                         *)
(* JavaScript numbers are modelled as exact rationals [n |-> _, d |-> _]   *)
(* in lowest terms with d > 0.  The three non-finite results a division   *)
(* can produce are the records PosInf, NegInf and NaN; null is NULL.       *)
(* Monetary amounts are stored in units of 100000 dollars (Dollars(k) is   *)
(* the rational k / 100000), which keeps every numerator inside TLC's      *)
(* integer range without changing any ratio, sum or comparison.            *)
(* Season identifiers "YYYY-YY" are modelled by their rank 1..NumSeasons   *)
(* in lexicographic order (String.localeCompare orders them the same way). *)
(***************************************************************************)
EXTENDS Integers, Sequences, FiniteSets, TLC

VARIABLES
  contractsCache,  \* the module variable: NoCache (null) or a reference to an array
  arrays,          \* the ContractData[] arrays built so far; a reference is an index
  contractsFile,   \* data/contracts.csv as it is on disk
  fileReads,       \* number of readFileSync calls made so far
  held,            \* the list a caller of loadContracts kept: reference and contents seen
  valued,          \* players valued since the cache was last cleared or the file changed
  fileFixed,       \* the file has not changed since contractsCache was last null
  attempt,         \* fetchNBAData's loop variable
  requests,        \* the upstream requests fetchNBAData issued so far, with their answers
  call, ret, pc    \* the current call, its result, and "called" / "returned" / "threw"

vars ==
  <<contractsCache, arrays, contractsFile, fileReads, held, valued, fileFixed,
    attempt, requests, call, ret, pc>>

\* the state the module, the server and their callers keep between calls
moduleState ==
  <<contractsCache, arrays, contractsFile, fileReads, held, valued, fileFixed, attempt, requests>>

\* ===== BOUNDS =====

NumSeasons == 3
MaxHistory == 2
NumSeasonsAgg == 4
MaxHistoryAgg == 4
MaxPop == 3
MaxAge == 42
MaxScoreHalves == 70
MaxTrajLen == 3
MaxStat == 4
MaxMinutes == 3
MaxAttempts == 3
MaxLoads == 3
MaxRetries == 3

\* ===== NUMBERS =====

NULL == [isNull |-> TRUE]
NaN == [isNaN |-> TRUE]
PosInf == [inf |-> 1]
NegInf == [inf |-> -1]

IsNum(x) == DOMAIN x = {"n", "d"}

AbsInt(a) == IF a < 0 THEN -a ELSE a

RECURSIVE Gcd(_, _)
Gcd(a, b) == IF b = 0 THEN a ELSE Gcd(b, a % b)

\* a / b in lowest terms with a positive denominator, g the gcd of |a| and |b|
Reduce(a, b, g) ==
  IF b < 0 THEN [n |-> (-a) \div g, d |-> (-b) \div g]
  ELSE [n |-> a \div g, d |-> b \div g]

Frac(a, b) == Reduce(a, b, Gcd(AbsInt(a), AbsInt(b)))

Num(k) == [n |-> k, d |-> 1]

Dollars(k) == Frac(k, 100000)

AddOver(x, y, g) ==
  Frac(x.n * (y.d \div g) + y.n * (x.d \div g), (x.d \div g) * y.d)

Add(x, y) == AddOver(x, y, Gcd(x.d, y.d))

Neg(x) == [n |-> -x.n, d |-> x.d]

Sub(x, y) == Add(x, Neg(y))

MulOver(x, y, g1, g2) ==
  Frac((x.n \div g1) * (y.n \div g2), (x.d \div g2) * (y.d \div g1))

Mul(x, y) == MulOver(x, y, Gcd(AbsInt(x.n), y.d), Gcd(AbsInt(y.n), x.d))

\* x / y for y # 0
Div(x, y) == Mul(x, Frac(y.d, y.n))

LessOver(x, y, g) == x.n * (y.d \div g) < y.n * (x.d \div g)

Less(x, y) == LessOver(x, y, Gcd(x.d, y.d))

Leq(x, y) == ~Less(y, x)

IsZero(x) == x.n = 0

\* Math.min / Math.max on finite numbers
MathMin(x, y) == IF Less(y, x) THEN y ELSE x

MathMax(x, y) == IF Less(x, y) THEN y ELSE x

JsDivZeroByZeroEverywhere(x, y) == IF ~IsZero(y) THEN Div(x, y) ELSE NaN

\* the IEEE quotient x / y of two finite numbers
JsDiv(x, y) ==
  IF ~IsZero(y) THEN Div(x, y)
  ELSE IF IsZero(x) THEN NaN
  ELSE IF x.n > 0 THEN PosInf ELSE NegInf

\* x > c and x < c for a possibly non-finite x and a finite c
JsGreater(x, c) ==
  IF IsNum(x) THEN Less(c, x) ELSE x = PosInf

JsLess(x, c) ==
  IF IsNum(x) THEN Less(x, c) ELSE x = NegInf

\* ===== CONSTANTS =====

RECENCY_WEIGHTS == <<Frac(6, 10), Frac(3, 10), Frac(1, 10)>>

PEAK_AGE_MIN == 26
PEAK_AGE_MAX == 28
YOUNG_BONUS_PER_YEAR == Frac(5, 1000)
OLD_PENALTY_PER_YEAR == Frac(1, 100)
MAX_AGE_ADJUSTMENT == Frac(10, 100)

LEAGUE_MEDIAN_SALARY == Dollars(8500000)
LEAGUE_TOP_SALARY == Dollars(55000000)
MEDIAN_IMPACT_SCORE == Num(8)
TOP_IMPACT_SCORE == Num(25)
MIN_SALARY == Dollars(1000000)

Trajectories == {"rising", "stable", "declining", "unknown"}

\* ===== AGING ADJUSTMENT =====

calculateAgeFactorUncapped(age) ==
  IF age >= PEAK_AGE_MIN /\ age <= PEAK_AGE_MAX THEN Num(1)
  ELSE IF age < PEAK_AGE_MIN
    THEN Add(Num(1), Mul(Num(PEAK_AGE_MIN - age), YOUNG_BONUS_PER_YEAR))
    ELSE Sub(Num(1), Mul(Num(age - PEAK_AGE_MAX), OLD_PENALTY_PER_YEAR))

calculateAgeFactor(age) ==
  IF age >= PEAK_AGE_MIN /\ age <= PEAK_AGE_MAX THEN Num(1)
  ELSE IF age < PEAK_AGE_MIN
    THEN LET yearsUnder == PEAK_AGE_MIN - age
             bonus == MathMin(Mul(Num(yearsUnder), YOUNG_BONUS_PER_YEAR), MAX_AGE_ADJUSTMENT)
         IN Add(Num(1), bonus)
    ELSE LET yearsOver == age - PEAK_AGE_MAX
             penalty == MathMin(Mul(Num(yearsOver), OLD_PENALTY_PER_YEAR), MAX_AGE_ADJUSTMENT)
         IN Sub(Num(1), penalty)

\* ===== FAIR AAV =====

aavSlopeFromZero == Div(LEAGUE_TOP_SALARY, Sub(TOP_IMPACT_SCORE, MEDIAN_IMPACT_SCORE))

aavSlope == Div(Sub(LEAGUE_TOP_SALARY, LEAGUE_MEDIAN_SALARY), Sub(TOP_IMPACT_SCORE, MEDIAN_IMPACT_SCORE))

aavIntercept == Sub(LEAGUE_MEDIAN_SALARY, Mul(aavSlope, MEDIAN_IMPACT_SCORE))

ClampAAVNoFloor(fairAAV) == MathMin(fairAAV, Mul(LEAGUE_TOP_SALARY, Frac(11, 10)))

\* Math.max(MIN_SALARY, Math.min(fairAAV, LEAGUE_TOP_SALARY * 1.1))
ClampAAV(fairAAV) ==
  MathMax(MIN_SALARY, MathMin(fairAAV, Mul(LEAGUE_TOP_SALARY, Frac(11, 10))))

calculateFairAAVUnclamped(adjustedImpactScore) ==
  Add(Mul(aavSlope, adjustedImpactScore), aavIntercept)

calculateFairAAV(adjustedImpactScore) ==
  LET fairAAV == Add(Mul(aavSlope, adjustedImpactScore), aavIntercept)
  IN ClampAAV(fairAAV)

\* ===== STOCK INDEX =====

\* a < b for numbers that may be NaN: every comparison with NaN is false
JsLessThan(a, b) == IsNum(a) /\ IsNum(b) /\ Less(a, b)

\* Array.prototype.sort((a, b) => a - b): stable insertion of x into a sorted list.
\* a - b is NaN when either is NaN, which sort treats as "equal"; in a list of equal
\* numbers and NaNs every comparison is then "equal" and the stable sort keeps the order.
RECURSIVE InsertAsc(_, _)
InsertAsc(x, s) ==
  IF s = <<>> THEN <<x>>
  ELSE IF JsLessThan(x, Head(s)) THEN <<x>> \o s
  ELSE <<Head(s)>> \o InsertAsc(x, Tail(s))

SortAscKeepsOrder(s) == s

RECURSIVE SortAsc(_)
SortAsc(s) ==
  IF s = <<>> THEN <<>>
  ELSE InsertAsc(s[Len(s)], SortAsc(SubSeq(s, 1, Len(s) - 1)))

\* the caller's array after "[...allSurplusValues].sort(...)": the spread builds a new
\* array and sort() reorders that one
AllSurplusValuesAfterSort(allSurplusValues) == allSurplusValues

\* the loop "for (val of sortedValues) { if (val < surplusValue) rank++; else break; }"
RECURSIVE RankLoop(_, _)
RankLoop(sortedValues, surplusValue) ==
  IF sortedValues = <<>> THEN 0
  ELSE IF JsLessThan(Head(sortedValues), surplusValue)
    THEN 1 + RankLoop(Tail(sortedValues), surplusValue)
    ELSE 0

TrajectoryBonusNoRising(trajectory) ==
  IF trajectory = "declining" THEN Num(-5) ELSE Num(0)

TrajectoryBonus(trajectory) ==
  IF trajectory = "rising" THEN Num(5)
  ELSE IF trajectory = "declining" THEN Num(-5)
  ELSE Num(0)

ClampIndexNoUpper(x) == MathMax(Num(0), x)

\* Math.max(0, Math.min(100, percentileRank + trajectoryBonus))
ClampIndex(x) == MathMax(Num(0), MathMin(Num(100), x))

\* (rank / sortedValues.length) * 100, or 50 for an empty population
PercentileRank(sortedValues, surplusValue) ==
  IF Len(sortedValues) > 0
  THEN Mul(Frac(RankLoop(sortedValues, surplusValue), Len(sortedValues)), Num(100))
  ELSE Num(50)

StockIndexResult(percentileRank, trajectoryBonus) ==
  [stockIndex |-> ClampIndex(Add(percentileRank, trajectoryBonus)),
   percentileRank |-> percentileRank,
   trajectoryBonus |-> trajectoryBonus]

\* the part of calculateStockIndex after the null check
RankedStockIndex(surplusValue, allSurplusValues, trajectory) ==
  StockIndexResult(PercentileRank(SortAsc(allSurplusValues), surplusValue),
                   TrajectoryBonus(trajectory))

\* without the null check a null surplus compares like 0
calculateStockIndexNoNullCheck(surplusValue, allSurplusValues, trajectory) ==
  RankedStockIndex(IF surplusValue = NULL THEN Num(0) ELSE surplusValue,
                   allSurplusValues, trajectory)

calculateStockIndex(surplusValue, allSurplusValues, trajectory) ==
  IF surplusValue = NULL
  THEN [stockIndex |-> Num(50), percentileRank |-> Num(50), trajectoryBonus |-> Num(0)]
  ELSE RankedStockIndex(surplusValue, allSurplusValues, trajectory)

\* ===== TRAJECTORY =====

\* ((recent - previous) / previous) * 100
ChangePercentOf(quotient) ==
  IF IsNum(quotient) THEN Mul(quotient, Num(100)) ELSE quotient

ChangePercent(recent, previous) ==
  ChangePercentOf(JsDiv(Sub(recent, previous), previous))

TrajectoryOfChange(changePercent) ==
  IF JsGreater(changePercent, Num(10)) THEN "rising"
  ELSE IF JsLess(changePercent, Num(-10)) THEN "declining"
  ELSE "stable"

determineTrajectory(seasonBreakdowns) ==
  IF Len(seasonBreakdowns) < 2 THEN "unknown"
  ELSE TrajectoryOfChange(ChangePercent(seasonBreakdowns[1].impactScore,
                                        seasonBreakdowns[2].impactScore))

\* ===== IMPACT SCORE =====

WEIGHTS ==
  [pointsPer36 |-> Frac(35, 100), assistsPer36 |-> Frac(20, 100),
   reboundsPer36 |-> Frac(15, 100), stealsPer36 |-> Frac(10, 100),
   blocksPer36 |-> Frac(10, 100), trueShootingPct |-> Frac(10, 100),
   turnoverPenalty |-> Frac(5, 100)]

\* points / denominator, or 0 when the denominator is 0
TrueShootingOver(points, denominator) ==
  IF IsZero(denominator) THEN Num(0) ELSE Div(Num(points), denominator)

calculateTrueShootingPct(points, fgAttempted, ftAttempted) ==
  TrueShootingOver(points,
    Mul(Num(2), Add(Num(fgAttempted), Mul(Frac(44, 100), Num(ftAttempted)))))

scaleToPer36KeepsStat(stat, minutes) ==
  IF minutes = 0 THEN Num(stat) ELSE Mul(Frac(stat, minutes), Num(36))

scaleToPer36(stat, minutes) ==
  IF minutes = 0 THEN Num(0) ELSE Mul(Frac(stat, minutes), Num(36))

\* the per-36 rates and the true shooting percentage of one season
Per36Rates(stats) ==
  [pointsPer36 |-> scaleToPer36(stats.points, stats.minutes),
   assistsPer36 |-> scaleToPer36(stats.assists, stats.minutes),
   reboundsPer36 |-> scaleToPer36(stats.rebounds, stats.minutes),
   stealsPer36 |-> scaleToPer36(stats.steals, stats.minutes),
   blocksPer36 |-> scaleToPer36(stats.blocks, stats.minutes),
   turnoversPer36 |-> scaleToPer36(stats.turnovers, stats.minutes),
   trueShootingPct |->
     calculateTrueShootingPct(stats.points, stats.fgAttempted, stats.ftAttempted)]

\* the weighted components; the true shooting percentage is scaled by 100 first
WeightedComponents(rates) ==
  [pointsComponent |-> Mul(rates.pointsPer36, WEIGHTS.pointsPer36),
   assistsComponent |-> Mul(rates.assistsPer36, WEIGHTS.assistsPer36),
   reboundsComponent |-> Mul(rates.reboundsPer36, WEIGHTS.reboundsPer36),
   stealsComponent |-> Mul(rates.stealsPer36, WEIGHTS.stealsPer36),
   blocksComponent |-> Mul(rates.blocksPer36, WEIGHTS.blocksPer36),
   tsComponent |-> Mul(Mul(rates.trueShootingPct, Num(100)), WEIGHTS.trueShootingPct),
   turnoverPenalty |-> Mul(rates.turnoversPer36, WEIGHTS.turnoverPenalty)]

RawImpactScoreNoTrueShooting(c) ==
  Sub(Add(Add(Add(Add(c.pointsComponent, c.assistsComponent), c.reboundsComponent),
              c.stealsComponent), c.blocksComponent),
      c.turnoverPenalty)

RawImpactScore(c) ==
  Sub(Add(Add(Add(Add(Add(c.pointsComponent, c.assistsComponent), c.reboundsComponent),
                  c.stealsComponent), c.blocksComponent), c.tsComponent),
      c.turnoverPenalty)

BreakdownRecord(rates, c) ==
  [pointsPer36 |-> rates.pointsPer36, assistsPer36 |-> rates.assistsPer36,
   reboundsPer36 |-> rates.reboundsPer36, stealsPer36 |-> rates.stealsPer36,
   blocksPer36 |-> rates.blocksPer36, trueShootingPct |-> rates.trueShootingPct,
   turnoversPer36 |-> rates.turnoversPer36,
   pointsComponent |-> c.pointsComponent, assistsComponent |-> c.assistsComponent,
   reboundsComponent |-> c.reboundsComponent, stealsComponent |-> c.stealsComponent,
   blocksComponent |-> c.blocksComponent, tsComponent |-> c.tsComponent,
   turnoverPenalty |-> c.turnoverPenalty,
   rawImpactScore |-> RawImpactScore(c)]

BreakdownOfRates(rates) == BreakdownRecord(rates, WeightedComponents(rates))

calculateImpactScoreBreakdown(stats) == BreakdownOfRates(Per36Rates(stats))

\* ===== MULTI-SEASON AGGREGATION =====

\* [...seasonStats].sort((a, b) => b.season.localeCompare(a.season)): stable, most recent first
RECURSIVE InsertBySeasonDesc(_, _)
InsertBySeasonDesc(x, s) ==
  IF s = <<>> THEN <<x>>
  ELSE IF Head(s).season < x.season THEN <<x>> \o s
  ELSE <<Head(s)>> \o InsertBySeasonDesc(x, Tail(s))

RECURSIVE SortBySeasonDesc(_)
SortBySeasonDesc(s) ==
  IF s = <<>> THEN <<>>
  ELSE InsertBySeasonDesc(s[Len(s)], SortBySeasonDesc(SubSeq(s, 1, Len(s) - 1)))

SeasonStatsSortedInPlace(seasonStats) == SortBySeasonDesc(seasonStats)

\* the caller's array after "[...seasonStats].sort(...)": the spread builds a new array
\* and sort() reorders that one
SeasonStatsAfterSort(seasonStats) == seasonStats

SliceAll(s) == s

\* sortedStats.slice(0, 3)
Slice3(s) == SubSeq(s, 1, IF Len(s) < 3 THEN Len(s) ELSE 3)

\* RECENCY_WEIGHTS[index] || 0, index counted from 0
RecencyWeight(index) ==
  IF index + 1 <= Len(RECENCY_WEIGHTS) THEN RECENCY_WEIGHTS[index + 1] ELSE Num(0)

QualifiesGamesOnly(stats) == stats.gamesPlayed >= 10

Qualifies(stats) == stats.gamesPlayed >= 10 /\ stats.minutes >= 100

AggAccumulateListsAll(acc, stats, weight, breakdown) ==
  [weightedSum |->
     IF stats.gamesPlayed >= 10 /\ stats.minutes >= 100
     THEN Add(acc.weightedSum, Mul(breakdown.rawImpactScore, weight)) ELSE acc.weightedSum,
   totalWeight |->
     IF stats.gamesPlayed >= 10 /\ stats.minutes >= 100
     THEN Add(acc.totalWeight, weight) ELSE acc.totalWeight,
   seasonBreakdowns |-> Append(acc.seasonBreakdowns,
      [season |-> stats.season, weight |-> weight, impactScore |-> breakdown.rawImpactScore])]

\* the body of the forEach callback, given the season's weight and breakdown
AggAccumulate(acc, stats, weight, breakdown) ==
  IF Qualifies(stats)
  THEN [weightedSum |-> Add(acc.weightedSum, Mul(breakdown.rawImpactScore, weight)),
        totalWeight |-> Add(acc.totalWeight, weight),
        seasonBreakdowns |-> Append(acc.seasonBreakdowns,
           [season |-> stats.season, weight |-> weight,
            impactScore |-> breakdown.rawImpactScore])]
  ELSE acc

\* one iteration of recentStats.forEach((stats, index) => ...) on the accumulators
AggStep(acc, stats, index) ==
  AggAccumulate(acc, stats, RecencyWeight(index), calculateImpactScoreBreakdown(stats))

RECURSIVE AggLoop(_, _, _)
AggLoop(acc, recentStats, index) ==
  IF index >= Len(recentStats) THEN acc
  ELSE AggLoop(AggStep(acc, recentStats[index + 1], index), recentStats, index + 1)

NormalizeNoDivision(weightedSum, totalWeight) == weightedSum

\* totalWeight > 0 ? weightedSum / totalWeight : 0
Normalize(weightedSum, totalWeight) ==
  IF Less(Num(0), totalWeight) THEN Div(weightedSum, totalWeight) ELSE Num(0)

\* the accumulators before the loop
EmptyAcc == [weightedSum |-> Num(0), totalWeight |-> Num(0), seasonBreakdowns |-> <<>>]

WeightedResult(acc) ==
  [weightedScore |-> Normalize(acc.weightedSum, acc.totalWeight),
   seasonBreakdowns |-> acc.seasonBreakdowns]

calculateWeightedImpactScore(seasonStats) ==
  IF Len(seasonStats) = 0
  THEN [weightedScore |-> Num(0), seasonBreakdowns |-> <<>>]
  ELSE WeightedResult(AggLoop(EmptyAcc, Slice3(SortBySeasonDesc(seasonStats)), 0))

\* ===== CONTRACT DATA LOADER =====

NoCache == [isNull |-> TRUE]

NoFile == [exists |-> FALSE]

\* a line of contracts.csv after split(','), trim and parseInt of the fourth field;
\* a fourth field that does not start with digits parses to NaN
BlankLine == [blank |-> TRUE]

HeaderLine == [header |-> TRUE]

Row(playerId, playerName, season, salary) ==
  [cols |-> <<playerId, playerName, season, salary>>, digits |-> TRUE]

\* a row whose fourth field is empty
RowNoSalary(playerId, playerName, season) ==
  [cols |-> <<playerId, playerName, season, "">>, digits |-> FALSE]

\* a row with three fields only
ShortRow(playerId, playerName, season) ==
  [cols |-> <<playerId, playerName, season>>, digits |-> FALSE]

\* parseInt(salaryStr.trim(), 10)
ParseSalary(line) == IF line.digits THEN Num(line.cols[4]) ELSE NaN

\* the loop "for (let i = 1; i < lines.length; i++)" of loadContracts
RECURSIVE ParseLines(_, _)
ParseLines(lines, i) ==
  IF i > Len(lines) THEN <<>>
  ELSE IF lines[i] = BlankLine THEN ParseLines(lines, i + 1)
  ELSE <<[playerId |-> lines[i].cols[1], playerName |-> lines[i].cols[2],
          season |-> lines[i].cols[3], salary |-> ParseSalary(lines[i])]>>
       \o ParseLines(lines, i + 1)

\* line.split(',') yields fewer than four fields: playerName, season or salaryStr is
\* undefined and its .trim() raises a TypeError
RECURSIVE ParseThrows(_, _)
ParseThrows(lines, i) ==
  IF i > Len(lines) THEN FALSE
  ELSE IF lines[i] = BlankLine THEN ParseThrows(lines, i + 1)
  ELSE Len(lines[i].cols) < 4 \/ ParseThrows(lines, i + 1)

CacheHitNonEmpty(cache, heap) == cache # NoCache /\ heap[cache.ref] # <<>>

\* if (contractsCache): every array, the empty one included, is truthy
CacheHit(cache, heap) == cache # NoCache

\* loadContracts() reaches readFileSync
LoadReads(cache, heap, file) == ~CacheHit(cache, heap) /\ file # NoFile

\* loadContracts() raises
LoadThrows(cache, heap, file) == LoadReads(cache, heap, file) /\ ParseThrows(file.lines, 2)

\* loadContracts() builds a new array and stores it in contractsCache
LoadBuildsAlsoWhenMissing(cache, heap, file) ==
  ~CacheHit(cache, heap) /\ (file = NoFile \/ ~ParseThrows(file.lines, 2))

LoadBuilds(cache, heap, file) == LoadReads(cache, heap, file) /\ ~ParseThrows(file.lines, 2)

\* the list loadContracts() returns when it does not raise
LoadedContracts(cache, heap, file) ==
  IF CacheHit(cache, heap) THEN heap[cache.ref]
  ELSE IF file = NoFile THEN <<>>
  ELSE ParseLines(file.lines, 2)

ArraysAfterLoadStoresNothing(cache, heap, file) ==
  IF LoadBuilds(cache, heap, file) THEN Append(heap, <<>>) ELSE heap

\* the arrays after loadContracts(): "const contracts = []" filled by push, the array
\* that is stored and returned
ArraysAfterLoad(cache, heap, file) ==
  IF LoadBuilds(cache, heap, file) THEN Append(heap, LoadedContracts(cache, heap, file)) ELSE heap

\* the value of contractsCache after loadContracts()
CacheAfterLoad(cache, heap, file) ==
  IF LoadBuilds(cache, heap, file) THEN [ref |-> Len(heap) + 1] ELSE cache

\* the number of readFileSync calls after loadContracts()
ReadsAfterLoad(cache, heap, file, reads) ==
  IF LoadReads(cache, heap, file) THEN reads + 1 ELSE reads

ArraysAfterClearInPlace(cache, heap) ==
  IF cache # NoCache THEN [heap EXCEPT ![cache.ref] = <<>>] ELSE heap

\* clearContractsCache() assigns the variable and touches no array
ArraysAfterClear(cache, heap) == heap

\* contracts.find(c => c.playerId === playerId && c.season === season) || null
RECURSIVE FindContract(_, _, _)
FindContract(contracts, playerId, season) ==
  IF contracts = <<>> THEN NULL
  ELSE IF Head(contracts).playerId = playerId /\ Head(contracts).season = season
    THEN Head(contracts)
    ELSE FindContract(Tail(contracts), playerId, season)

\* contracts.filter(c => c.season === season)
RECURSIVE FilterSeason(_, _)
FilterSeason(contracts, season) ==
  IF contracts = <<>> THEN <<>>
  ELSE IF Head(contracts).season = season
    THEN <<Head(contracts)>> \o FilterSeason(Tail(contracts), season)
    ELSE FilterSeason(Tail(contracts), season)

\* ===== MAIN VALUATION FUNCTION =====

\* seasonStats.find(s => s.season === currentSeason)
RECURSIVE FindSeason(_, _)
FindSeason(seasonStats, currentSeason) ==
  IF seasonStats = <<>> THEN NULL
  ELSE IF Head(seasonStats).season = currentSeason THEN Head(seasonStats)
  ELSE FindSeason(Tail(seasonStats), currentSeason)

Undefined == [defined |-> FALSE]

Given(values) == [defined |-> TRUE, values |-> values]

SurplusReversed(fairAAV, actualAAV) ==
  IF actualAAV # NULL THEN Sub(actualAAV, fairAAV) ELSE NULL

\* actualAAV !== null ? fairAAV - actualAAV : null
SurplusOf(fairAAV, actualAAV) ==
  IF actualAAV # NULL THEN Sub(fairAAV, actualAAV) ELSE NULL

\* currentSeasonStats ? calculateImpactScoreBreakdown(currentSeasonStats) : null
CurrentBreakdown(currentSeasonStats) ==
  IF currentSeasonStats # NULL THEN calculateImpactScoreBreakdown(currentSeasonStats) ELSE NULL

\* currentBreakdown?.rawImpactScore || 0
CurrentSeasonImpactScore(currentBreakdown) ==
  IF currentBreakdown = NULL THEN Num(0) ELSE currentBreakdown.rawImpactScore

\* contract?.salary || null
ActualAAV(contract) ==
  IF contract = NULL THEN NULL
  ELSE IF contract.salary = Num(0) \/ contract.salary = NaN THEN NULL
  ELSE Dollars(contract.salary.n)

\* allPlayersSurplusValues || (surplusValue !== null ? [surplusValue] : [])
SurplusForIndex(allPlayersSurplusValues, surplusValue) ==
  IF allPlayersSurplusValues.defined THEN allPlayersSurplusValues.values
  ELSE IF surplusValue # NULL THEN <<surplusValue>> ELSE <<>>

\* the values that depend on the arguments alone
ValuationBasis(contracts, playerId, seasonStats, currentSeason, playerAge) ==
  [currentBreakdown |-> CurrentBreakdown(FindSeason(seasonStats, currentSeason)),
   weighted |-> calculateWeightedImpactScore(seasonStats),
   ageFactor |-> calculateAgeFactor(playerAge),
   actualAAV |-> ActualAAV(FindContract(contracts, playerId, currentSeason))]

\* the returned ValuationResult
ValuationResult(playerId, currentSeason, playerAge, basis, adjustedImpactScore, fairAAV, surplusValue, trajectory, stock) ==
  [playerId |-> playerId, season |-> currentSeason, playerAge |-> playerAge,
   currentSeasonImpactScore |-> CurrentSeasonImpactScore(basis.currentBreakdown),
   weightedImpactScore |-> basis.weighted.weightedScore,
   ageFactor |-> basis.ageFactor,
   adjustedImpactScore |-> adjustedImpactScore,
   fairAAV |-> fairAAV,
   actualAAV |-> basis.actualAAV,
   surplusValue |-> surplusValue,
   stockIndex |-> stock.stockIndex,
   trajectory |-> trajectory,
   explanationBreakdown |->
     [impactScoreWeights |-> WEIGHTS,
      currentSeasonBreakdown |-> basis.currentBreakdown,
      recencyWeights |-> basis.weighted.seasonBreakdowns,
      agingAdjustment |->
        [age |-> playerAge,
         adjustmentPercent |-> Mul(Sub(basis.ageFactor, Num(1)), Num(100))],
      fairAAVCalibration |->
        [medianSalary |-> LEAGUE_MEDIAN_SALARY, topSalary |-> LEAGUE_TOP_SALARY,
         impactScoreToAAVSlope |-> aavSlope],
      stockIndexCalculation |->
        [surplusValue |-> surplusValue, percentileRank |-> stock.percentileRank,
         trajectoryBonus |-> stock.trajectoryBonus]]]

\* from the surplus on: trajectory, stock index, result
ValuationFromSurplus(playerId, currentSeason, playerAge, allPlayersSurplusValues, basis, adjustedImpactScore, fairAAV, surplusValue, trajectory) ==
  ValuationResult(playerId, currentSeason, playerAge, basis, adjustedImpactScore,
                  fairAAV, surplusValue, trajectory,
                  calculateStockIndex(surplusValue,
                                      SurplusForIndex(allPlayersSurplusValues, surplusValue),
                                      trajectory))

\* from the fair AAV on: surplus against the actual AAV, trajectory
ValuationFromFairAAV(playerId, currentSeason, playerAge, allPlayersSurplusValues, basis, adjustedImpactScore, fairAAV) ==
  ValuationFromSurplus(playerId, currentSeason, playerAge, allPlayersSurplusValues,
                       basis, adjustedImpactScore, fairAAV,
                       SurplusOf(fairAAV, basis.actualAAV),
                       determineTrajectory(basis.weighted.seasonBreakdowns))

\* from the adjusted impact score on
ValuationFromAdjusted(playerId, currentSeason, playerAge, allPlayersSurplusValues, basis, adjustedImpactScore) ==
  ValuationFromFairAAV(playerId, currentSeason, playerAge, allPlayersSurplusValues,
                       basis, adjustedImpactScore, calculateFairAAV(adjustedImpactScore))

ValuationFromBasisIgnoresAge(playerId, currentSeason, playerAge, allPlayersSurplusValues, basis) ==
  ValuationFromAdjusted(playerId, currentSeason, playerAge, allPlayersSurplusValues,
                        basis, basis.weighted.weightedScore)

\* from the weighted score and the age factor on
ValuationFromBasis(playerId, currentSeason, playerAge, allPlayersSurplusValues, basis) ==
  ValuationFromAdjusted(playerId, currentSeason, playerAge, allPlayersSurplusValues,
                        basis, Mul(basis.weighted.weightedScore, basis.ageFactor))

\* contracts is the list getPlayerContract obtains from loadContracts()
computePlayerValuation(contracts, playerId, seasonStats, currentSeason, playerAge, allPlayersSurplusValues) ==
  ValuationFromBasis(playerId, currentSeason, playerAge, allPlayersSurplusValues,
                     ValuationBasis(contracts, playerId, seasonStats, currentSeason, playerAge))

\* ===== THE VALUATION ROUTE (GET /api/player/:playerId/valuation) =====

\* the divisor and factor 2735294 the route uses in both directions
ROUTE_SLOPE == Dollars(2735294)

\* 8 + (contract.salary - 8500000) / 2735294
EstimatedImpactScore(salary) ==
  Add(Num(8), Div(Sub(salary, Dollars(8500000)), ROUTE_SLOPE))

\* 8500000 + (estimatedImpactScore - 8) * 2735294
EstimatedFairAAV(estimatedImpactScore) ==
  Add(Dollars(8500000), Mul(Sub(estimatedImpactScore, Num(8)), ROUTE_SLOPE))

\* estimatedFairAAV - contract.salary for one contract; NaN for a salary that is NaN
EstimatedSurplus(contract) ==
  IF contract.salary = NaN THEN NaN
  ELSE Sub(EstimatedFairAAV(EstimatedImpactScore(Dollars(contract.salary.n))),
           Dollars(contract.salary.n))

\* the loop "for (const contract of allContracts) allSurplusValues.push(...)"
RoutePopulation(allContracts) ==
  [i \in 1..Len(allContracts) |-> EstimatedSurplus(allContracts[i])]

\* the valuation the route computes from the contracts list both of its lookups obtain
RouteValuation(contracts, playerId, seasonStats, currentSeason, playerAge) ==
  computePlayerValuation(contracts, playerId, seasonStats, currentSeason, playerAge,
                         Given(RoutePopulation(FilterSeason(contracts, currentSeason))))

\* ===== INPUTS =====

\* one season's cumulative totals (the fields the engine reads)
StatLine(gp, min, pts, ast, reb, stl, blk, tov, fga, fta) ==
  [gamesPlayed |-> gp, minutes |-> min, points |-> pts, assists |-> ast,
   rebounds |-> reb, steals |-> stl, blocks |-> blk, turnovers |-> tov,
   fgAttempted |-> fga, ftAttempted |-> fta]

StarLine == StatLine(50, 1800, 1250, 300, 400, 100, 50, 150, 912, 200)
RoleLine == StatLine(60, 1200, 400, 100, 200, 0, 0, 100, 378, 50)
FewMinutesLine == StatLine(20, 90, 45, 0, 0, 0, 0, 0, 50, 0)
TurnoverLine == StatLine(10, 100, 0, 0, 0, 0, 0, 50, 0, 0)

\* a season without a single minute played
NoMinutesLine == StatLine(0, 0, 0, 0, 0, 0, 0, 0, 0, 0)
\* a negative counting stat
NegativePointsLine == StatLine(50, 1800, -10, 300, 400, 100, 50, 150, 912, 200)

ValuationLines == {StarLine, RoleLine, FewMinutesLine, TurnoverLine, NoMinutesLine}

AggregatorLines == {StarLine, FewMinutesLine, TurnoverLine}

InjSeqs(S, k) == {f \in [1..k -> S] : \A i, j \in 1..k : i # j => f[i] # f[j]}

\* season lists of length k with pairwise distinct season identifiers, in any order
HistoriesOfLen(seasons, lines, k) ==
  {[i \in 1..k |-> [season |-> ss[i]] @@ ls[i]] : ss \in InjSeqs(seasons, k), ls \in [1..k -> lines]}

Histories(seasons, lines, maxLen) ==
  UNION {HistoriesOfLen(seasons, lines, k) : k \in 0..maxLen}

\* the seasons of S, most recent first
RECURSIVE RecentFirst(_)
RecentFirst(S) ==
  IF S = {} THEN <<>>
  ELSE <<CHOOSE m \in S : \A x \in S : x <= m>>
       \o RecentFirst(S \ {CHOOSE m \in S : \A x \in S : x <= m})

HistoryOf(order, ls) == [i \in 1..Len(order) |-> [season |-> order[i]] @@ ls[order[i]]]

\* the histories of exactly three seasons, listed most recent first
ThreeSeasonHistories(seasons, lines) ==
  {HistoryOf(RecentFirst(S), ls) : S \in {T \in SUBSET seasons : Cardinality(T) = 3}, ls \in [seasons -> lines]}

\* season lists of length k in which at least two records carry the same season identifier
\* (a player traded in mid-season has one row per team under one SEASON_ID)
DuplicateSeasonHistories(seasons, lines, k) ==
  {[i \in 1..k |-> [season |-> ss[i]] @@ ls[i]] :
     ss \in {f \in [1..k -> seasons] : \E i, j \in 1..k : i # j /\ f[i] = f[j]},
     ls \in [1..k -> lines]}

SeqsUpTo(S, maxLen) == UNION {[1..k -> S] : k \in 0..maxLen}

Players == {1, 2}

ValuationAges == {22, 27, 34}

PopValues == {Dollars(-5000000), Dollars(0), Dollars(5000000)}

SurplusInputs == {NULL, Dollars(-5000000), Dollars(0), Dollars(5000000), Dollars(20000000)}

ValuationPops ==
  {Undefined, Given(<<>>), Given(<<Dollars(5000000), Dollars(-5000000), Dollars(0)>>)}

TrajScores == {Num(-10), Num(-5), Num(0), Num(9), Num(10), Num(11), Num(20)}

HeaderOnlyFile == [exists |-> TRUE, lines |-> <<HeaderLine>>]

ContractsFile ==
  [exists |-> TRUE,
   lines |-> <<HeaderLine, Row(1, "A", 3, 30000000), BlankLine,
               Row(2, "B", 3, 0), Row(1, "A", 2, 5000000)>>]

Files == {NoFile, ContractsFile}

\* a file in which one salary field of the season is empty
PartlyBlankFile ==
  [exists |-> TRUE,
   lines |-> <<HeaderLine, Row(1, "A", 3, 5000000), RowNoSalary(2, "B", 3)>>]

RouteFiles == {NoFile, ContractsFile, PartlyBlankFile}

\* the route after both upstream fetches succeeded: the season list it built from the
\* career stats and the age it computed from the birth date
RouteInputs ==
  {[fn |-> "valuationRoute", playerId |-> p, seasonStats |-> h, currentSeason |-> c,
    playerAge |-> a] :
     p \in Players, h \in Histories(1..NumSeasons, ValuationLines, MaxHistory),
     c \in 2..NumSeasons, a \in ValuationAges}

StockInputs ==
  {[fn |-> "calculateStockIndex", surplusValue |-> s, allSurplusValues |-> p, trajectory |-> t] :
     s \in SurplusInputs, p \in SeqsUpTo(PopValues, MaxPop), t \in Trajectories}

FairInputs ==
  {[fn |-> "calculateFairAAV", adjustedImpactScore |-> Frac(k, 2)] :
     k \in (-MaxScoreHalves)..MaxScoreHalves}

AgeInputs == {[fn |-> "calculateAgeFactor", age |-> a] : a \in 0..MaxAge}

TrajInputs ==
  {[fn |-> "determineTrajectory",
    seasonBreakdowns |-> [i \in 1..Len(q) |-> [season |-> NumSeasons + 1 - i, impactScore |-> q[i]]]] :
     q \in SeqsUpTo(TrajScores, MaxTrajLen)}

AggregatorInputs ==
  {[fn |-> "calculateWeightedImpactScore", seasonStats |-> h] :
     h \in Histories(1..NumSeasonsAgg, AggregatorLines, MaxHistoryAgg)
             \cup DuplicateSeasonHistories(1..2, AggregatorLines, 2)
             \cup DuplicateSeasonHistories(1..2, AggregatorLines, 3)}

ValuationHistories ==
  Histories(1..NumSeasons, ValuationLines, MaxHistory)
    \cup ThreeSeasonHistories(1..NumSeasons, ValuationLines)
    \cup DuplicateSeasonHistories(1..NumSeasons, ValuationLines, 2)

ValuationInputs ==
  {[fn |-> "computePlayerValuation", playerId |-> p, seasonStats |-> h,
    currentSeason |-> c, playerAge |-> a, allPlayersSurplusValues |-> v] :
     p \in Players, h \in ValuationHistories,
     c \in 1..NumSeasons, a \in ValuationAges, v \in ValuationPops}

\* seasons on a small grid of minutes, points, turnovers and attempts
GridLines ==
  {StatLine(10, min, pts, 0, 0, 0, 0, tov, fga, fta) :
     min \in {0, 1, 100}, pts \in {0, 1, 30}, tov \in {0, 50}, fga \in {0, 1, 20}, fta \in {0, 5}}

BreakdownInputs ==
  {[fn |-> "calculateImpactScoreBreakdown", stats |-> [season |-> NumSeasons] @@ l] :
     l \in GridLines \cup ValuationLines \cup {NegativePointsLine}}

Per36Inputs ==
  {[fn |-> "scaleToPer36", stat |-> st, minutes |-> m] :
     st \in (-MaxStat)..MaxStat, m \in 0..MaxMinutes}

TrueShootingInputs ==
  {[fn |-> "calculateTrueShootingPct", points |-> pts, fgAttempted |-> fga, ftAttempted |-> fta] :
     pts \in (-MaxStat)..MaxStat, fga \in 0..MaxAttempts, fta \in 0..MaxAttempts}

\* ===== STATE MACHINE =====

NoHeld == [isNull |-> TRUE]

\* the module as loaded, before any call
ModuleInit(file) ==
  /\ contractsCache = NoCache
  /\ arrays = <<>>
  /\ contractsFile = file
  /\ fileReads = 0
  /\ held = NoHeld
  /\ valued = {}
  /\ fileFixed = TRUE
  /\ attempt = 1
  /\ requests = <<>>

PureInit(inputs) ==
  /\ call \in inputs
  /\ ModuleInit(ContractsFile)
  /\ ret = NULL
  /\ pc = "called"

Init ==
  \/ PureInit(StockInputs)
  \/ PureInit(FairInputs)
  \/ PureInit(AgeInputs)
  \/ PureInit(TrajInputs)
  \/ PureInit(AggregatorInputs)
  \/ PureInit(BreakdownInputs)
  \/ PureInit(Per36Inputs)
  \/ PureInit(TrueShootingInputs)
  \/ /\ call \in ValuationInputs
     /\ \E file \in Files : ModuleInit(file)
     /\ ret = NULL
     /\ pc = "called"
  \/ /\ call \in RouteInputs
     /\ \E file \in RouteFiles : ModuleInit(file)
     /\ ret = NULL
     /\ pc = "called"

Return(value) ==
  /\ ret' = value
  /\ pc' = "returned"
  /\ UNCHANGED call

\* the call returns value and leaves the caller's argument objects as arguments
ReturnLeaving(value, arguments) ==
  /\ ret' = value
  /\ pc' = "returned"
  /\ call' = arguments

\* the population array after calculateStockIndex: sorted (as a copy) unless the null
\* check returned first
StockArgumentsAfter(c) ==
  IF c.surplusValue = NULL THEN c
  ELSE [c EXCEPT !.allSurplusValues = AllSurplusValuesAfterSort(@)]

CalculateStockIndex ==
  /\ pc = "called" /\ call.fn = "calculateStockIndex"
  /\ ReturnLeaving(calculateStockIndex(call.surplusValue, call.allSurplusValues, call.trajectory),
                   StockArgumentsAfter(call))
  /\ UNCHANGED moduleState

CalculateFairAAV ==
  /\ pc = "called" /\ call.fn = "calculateFairAAV"
  /\ Return(calculateFairAAV(call.adjustedImpactScore))
  /\ UNCHANGED moduleState

CalculateAgeFactor ==
  /\ pc = "called" /\ call.fn = "calculateAgeFactor"
  /\ Return(calculateAgeFactor(call.age))
  /\ UNCHANGED moduleState

DetermineTrajectory ==
  /\ pc = "called" /\ call.fn = "determineTrajectory"
  /\ Return([trajectory |-> determineTrajectory(call.seasonBreakdowns)])
  /\ UNCHANGED moduleState

\* the season array after calculateWeightedImpactScore: sorted (as a copy) unless the
\* list is empty
AggregatorArgumentsAfter(c) == [c EXCEPT !.seasonStats = SeasonStatsAfterSort(@)]

CalculateWeightedImpactScore ==
  /\ pc = "called" /\ call.fn = "calculateWeightedImpactScore"
  /\ ReturnLeaving(calculateWeightedImpactScore(call.seasonStats), AggregatorArgumentsAfter(call))
  /\ UNCHANGED moduleState

CalculateImpactScoreBreakdown ==
  /\ pc = "called" /\ call.fn = "calculateImpactScoreBreakdown"
  /\ Return(calculateImpactScoreBreakdown(call.stats))
  /\ UNCHANGED moduleState

ScaleToPer36 ==
  /\ pc = "called" /\ call.fn = "scaleToPer36"
  /\ Return(scaleToPer36(call.stat, call.minutes))
  /\ UNCHANGED moduleState

CalculateTrueShootingPct ==
  /\ pc = "called" /\ call.fn = "calculateTrueShootingPct"
  /\ Return(calculateTrueShootingPct(call.points, call.fgAttempted, call.ftAttempted))
  /\ UNCHANGED moduleState

\* a call that raises leaves no result
Throw ==
  /\ ret' = NULL
  /\ pc' = "threw"
  /\ UNCHANGED call

\* the effect of one loadContracts() on the module variable, the arrays and the file
LoadEffect ==
  /\ contractsCache' = CacheAfterLoad(contractsCache, arrays, contractsFile)
  /\ arrays' = ArraysAfterLoad(contractsCache, arrays, contractsFile)
  /\ fileReads' = ReadsAfterLoad(contractsCache, arrays, contractsFile, fileReads)
  /\ UNCHANGED <<contractsFile, attempt, requests>>

\* the arrays passed to computePlayerValuation after it returned result: the season
\* list went through calculateWeightedImpactScore, the population (when one was passed
\* and the surplus is not null) through calculateStockIndex's sort
ValuationArgumentsAfter(c, result) ==
  [c EXCEPT !.seasonStats = SeasonStatsAfterSort(@),
            !.allPlayersSurplusValues =
               IF @.defined /\ result.surplusValue # NULL
               THEN Given(AllSurplusValuesAfterSort(@.values)) ELSE @]

\* the valuation's result, or the error getPlayerContract's load raises
ValuationOutcome ==
  IF LoadThrows(contractsCache, arrays, contractsFile)
  THEN Throw
  ELSE /\ ret' = computePlayerValuation(LoadedContracts(contractsCache, arrays, contractsFile),
                                        call.playerId, call.seasonStats, call.currentSeason,
                                        call.playerAge, call.allPlayersSurplusValues)
       /\ pc' = "returned"
       /\ call' = ValuationArgumentsAfter(call, ret')

\* getPlayerContract inside the valuation loads the contracts lazily
ComputePlayerValuation ==
  /\ pc = "called" /\ call.fn = "computePlayerValuation"
  /\ ValuationOutcome
  /\ LoadEffect
  /\ valued' = valued \cup {call.playerId}
  /\ UNCHANGED <<held, fileFixed>>

\* the route from getAllContractsForSeason on: the first lookup loads the contracts,
\* computePlayerValuation's lookup is served the same list; an error is answered 500
PlayerValuationRoute ==
  /\ pc = "called" /\ call.fn = "valuationRoute"
  /\ IF LoadThrows(contractsCache, arrays, contractsFile)
     THEN Return([status |-> 500])
     ELSE Return([status |-> 200,
                  valuation |-> RouteValuation(
                     LoadedContracts(contractsCache, arrays, contractsFile),
                     call.playerId, call.seasonStats, call.currentSeason, call.playerAge)])
  /\ LoadEffect
  /\ UNCHANGED <<held, valued, fileFixed>>

Next ==
  \/ PlayerValuationRoute
  \/ CalculateStockIndex
  \/ CalculateFairAAV
  \/ CalculateAgeFactor
  \/ DetermineTrajectory
  \/ CalculateWeightedImpactScore
  \/ CalculateImpactScoreBreakdown
  \/ ScaleToPer36
  \/ CalculateTrueShootingPct
  \/ ComputePlayerValuation

Spec == Init /\ [][Next]_vars

\* ===== THE MODULE AND ITS CALLERS OVER TIME =====

\* the file after a refresh: a changed salary, a new row without a salary
UpdatedFile ==
  [exists |-> TRUE,
   lines |-> <<HeaderLine, Row(1, "A", 3, 40000000), RowNoSalary(2, "B", 3)>>]

\* a file with a row of three fields
MalformedFile ==
  [exists |-> TRUE,
   lines |-> <<HeaderLine, Row(1, "A", 3, 30000000), ShortRow(2, "B", 3)>>]

CacheFiles == {NoFile, HeaderOnlyFile, ContractsFile, UpdatedFile, MalformedFile}

CacheValuationInputs ==
  {[fn |-> "computePlayerValuation", playerId |-> p,
    seasonStats |-> <<[season |-> 3] @@ StarLine, [season |-> 2] @@ RoleLine>>,
    currentSeason |-> 3, playerAge |-> 27, allPlayersSurplusValues |-> Undefined] :
     p \in Players}
  \cup
  {[fn |-> "computePlayerValuation", playerId |-> 1,
    seasonStats |-> <<[season |-> 2] @@ RoleLine, [season |-> 3] @@ StarLine>>,
    currentSeason |-> 3, playerAge |-> 27,
    allPlayersSurplusValues |-> Given(<<Dollars(5000000), Dollars(-5000000), Dollars(0)>>)]}

\* direct calls of the aggregator and of the ranker with lists that are not in sorted order
CachePureInputs ==
  {[fn |-> "calculateWeightedImpactScore",
    seasonStats |-> <<[season |-> 2] @@ RoleLine, [season |-> 3] @@ StarLine>>],
   [fn |-> "calculateStockIndex", surplusValue |-> Dollars(0),
    allSurplusValues |-> <<Dollars(5000000), Dollars(-5000000), Dollars(0)>>,
    trajectory |-> "rising"]}

CacheInit ==
  /\ \E file \in CacheFiles : ModuleInit(file)
  /\ call = [fn |-> "none"]
  /\ ret = NULL
  /\ pc = "idle"

\* calls run to completion: nothing starts while a call is in progress, and a call
\* that would read the file starts only while the number of reads is below MaxLoads
MayCall ==
  /\ pc # "called"
  /\ LoadReads(contractsCache, arrays, contractsFile) => fileReads < MaxLoads

\* a caller starts a valuation; ComputePlayerValuation completes it
CallValuation ==
  /\ MayCall
  /\ call' \in CacheValuationInputs
  /\ ret' = NULL
  /\ pc' = "called"
  /\ UNCHANGED moduleState

\* a caller starts a call that does not touch the contracts
CallPure ==
  /\ pc # "called"
  /\ call' \in CachePureInputs
  /\ ret' = NULL
  /\ pc' = "called"
  /\ UNCHANGED moduleState

\* the outcome of a call that goes through loadContracts(): value is what the call
\* returns when the load does not raise
LoadOutcome(value) ==
  /\ IF LoadThrows(contractsCache, arrays, contractsFile)
     THEN ret' = NULL /\ pc' = "threw"
     ELSE ret' = value /\ pc' = "returned"
  /\ LoadEffect

\* the reference and contents a caller of loadContracts() obtained
Obtained ==
  [ref |-> CacheAfterLoad(contractsCache, arrays, contractsFile).ref,
   rows |-> LoadedContracts(contractsCache, arrays, contractsFile)]

\* loadContracts(); the caller may keep the array it received
LoadContracts ==
  /\ MayCall
  /\ call' = [fn |-> "loadContracts"]
  /\ LoadOutcome([rows |-> LoadedContracts(contractsCache, arrays, contractsFile)])
  /\ \/ held' = held
     \/ /\ CacheAfterLoad(contractsCache, arrays, contractsFile) # NoCache
        /\ held' = Obtained
  /\ UNCHANGED <<valued, fileFixed>>

GetPlayerContract ==
  /\ MayCall
  /\ \E p \in Players, season \in {2, 3} :
       /\ call' = [fn |-> "getPlayerContract", playerId |-> p, season |-> season]
       /\ LoadOutcome([contract |->
            FindContract(LoadedContracts(contractsCache, arrays, contractsFile), p, season)])
  /\ UNCHANGED <<held, valued, fileFixed>>

GetAllContractsForSeason ==
  /\ MayCall
  /\ \E season \in {2, 3} :
       /\ call' = [fn |-> "getAllContractsForSeason", season |-> season]
       /\ LoadOutcome([rows |->
            FilterSeason(LoadedContracts(contractsCache, arrays, contractsFile), season)])
  /\ UNCHANGED <<held, valued, fileFixed>>

ClearContractsCache ==
  /\ pc # "called"
  /\ call' = [fn |-> "clearContractsCache"]
  /\ ret' = NULL
  /\ pc' = "returned"
  /\ contractsCache' = NoCache
  /\ arrays' = ArraysAfterClear(contractsCache, arrays)
  /\ valued' = {}
  /\ fileFixed' = TRUE
  /\ UNCHANGED <<contractsFile, fileReads, held, attempt, requests>>

\* the data feed replaces contracts.csv between two calls
ChangeFile ==
  /\ pc # "called"
  /\ \E file \in CacheFiles \ {contractsFile} : contractsFile' = file
  /\ call' = [fn |-> "none"]
  /\ ret' = NULL
  /\ pc' = "idle"
  /\ valued' = {}
  /\ fileFixed' = (contractsCache = NoCache)
  /\ UNCHANGED <<contractsCache, arrays, fileReads, held, attempt, requests>>

CacheNext ==
  \/ CallValuation
  \/ ComputePlayerValuation
  \/ CallPure
  \/ CalculateWeightedImpactScore
  \/ CalculateStockIndex
  \/ LoadContracts
  \/ GetPlayerContract
  \/ GetAllContractsForSeason
  \/ ClearContractsCache
  \/ ChangeFile

CacheSpec == CacheInit /\ [][CacheNext]_vars

\* ===== THE API SERVER: fetchNBAData =====

\* what the upstream does with one request: it answers with a status, or nothing
\* arrives within the 60 second timeout
Answered(status) == [kind |-> "response", status |-> status]

TimedOut == [kind |-> "timeout", status |-> 0]

UpstreamAnswers == {Answered(200), Answered(404), Answered(429), Answered(503), TimedOut}

Pending == [kind |-> "pending", status |-> 0]

\* validateStatus: (status) => status < 500
ValidateStatus(status) == status < 500

\* axios.get settles: it resolves with the response when validateStatus accepts the
\* status, and rejects otherwise and on a timeout
AxiosResolves(answer) == answer.kind = "response" /\ ValidateStatus(answer.status)

\* the error axios rejects with at attempt k
AxiosError(answer, k) ==
  IF answer.kind = "timeout"
  THEN [code |-> "ECONNABORTED", status |-> 0, attempt |-> k]
  ELSE [code |-> "ERR_BAD_RESPONSE", status |-> answer.status, attempt |-> k]

\* new Error(`NBA API error: ${response.status} - ...`) thrown at attempt k
NBAApiError(status, k) == [code |-> "NBA API error", status |-> status, attempt |-> k]

TryAfterResponseAcceptsAny(status, k, retries) ==
  [do |-> "return", data |-> [responseOfAttempt |-> k]]

\* the try block after axios.get resolved with a response: return its data, wait two
\* seconds and continue, or throw
TryAfterResponse(status, k, retries) ==
  IF status # 200
  THEN IF status >= 500 /\ k < retries
       THEN [do |-> "continue", delay |-> 2000]
       ELSE [do |-> "throw", error |-> NBAApiError(status, k)]
  ELSE [do |-> "return", data |-> [responseOfAttempt |-> k]]

\* the catch block: rethrow at the last attempt, otherwise wait attempt * 2000 ms
Catch(error, k, retries) ==
  IF k = retries THEN [do |-> "rethrow", error |-> error]
  ELSE [do |-> "wait", delay |-> k * 2000]

TryThrowsPastCatch(answer, k, retries) ==
  IF ~AxiosResolves(answer) THEN Catch(AxiosError(answer, k), k, retries)
  ELSE IF answer.status = 200 THEN TryAfterResponse(answer.status, k, retries)
  ELSE [do |-> "rethrow", error |-> NBAApiError(answer.status, k)]

\* one pass of the loop body from the moment axios.get settled: what the function
\* does next.  An error thrown inside the try block is caught by the same catch.
AfterSettled(answer, k, retries) ==
  IF ~AxiosResolves(answer) THEN Catch(AxiosError(answer, k), k, retries)
  ELSE IF TryAfterResponse(answer.status, k, retries).do = "throw"
       THEN Catch(TryAfterResponse(answer.status, k, retries).error, k, retries)
       ELSE TryAfterResponse(answer.status, k, retries)

\* retries as the callers pass it; every call site uses the default 2
RetriesValues == 0..MaxRetries

FetchInit ==
  /\ call \in {[fn |-> "fetchNBAData", retries |-> r] : r \in RetriesValues}
  /\ \E file \in {ContractsFile} : ModuleInit(file)
  /\ ret = NULL
  /\ pc = "called"

fetchUntouched ==
  UNCHANGED <<contractsCache, arrays, contractsFile, fileReads, held, valued, fileFixed, call>>

\* the loop test "attempt <= retries"; if it holds axios.get issues the request,
\* otherwise the function throws the error after the loop
BeginAttempt ==
  /\ pc = "called" /\ call.fn = "fetchNBAData"
  /\ IF attempt <= call.retries
     THEN /\ requests' = Append(requests, Pending)
          /\ pc' = "requesting"
          /\ ret' = ret
     ELSE /\ requests' = requests
          /\ pc' = "threw"
          /\ ret' = [error |-> [code |-> "Failed to fetch from NBA API after all retries",
                                status |-> 0, attempt |-> 0]]
  /\ UNCHANGED attempt
  /\ fetchUntouched

\* the function's state after the pending request settled with answer
Resume(answer, next) ==
  /\ requests' = [requests EXCEPT ![Len(requests)] = answer]
  /\ pc' = CASE next.do = "return" -> "returned"
            [] next.do = "rethrow" -> "threw"
            [] OTHER -> "waiting"
  /\ ret' = CASE next.do = "return" -> [data |-> next.data]
             [] next.do = "rethrow" -> [error |-> next.error]
             [] OTHER -> [delay |-> next.delay]
  /\ UNCHANGED attempt
  /\ fetchUntouched

\* the upstream answers (or the timeout expires) and the function runs to its next
\* await, return or throw
Settle ==
  /\ pc = "requesting"
  /\ \E answer \in UpstreamAnswers : Resume(answer, AfterSettled(answer, attempt, call.retries))

\* the setTimeout promise resolves; the loop goes on with attempt++
TimerFires ==
  /\ pc = "waiting"
  /\ attempt' = attempt + 1
  /\ pc' = "called"
  /\ ret' = NULL
  /\ UNCHANGED requests
  /\ fetchUntouched

FetchNext ==
  \/ BeginAttempt
  \/ Settle
  \/ TimerFires

\* the event loop runs every continuation that is ready; axios settles every request
\* within its timeout and every timer fires
FetchSpec == FetchInit /\ [][FetchNext]_vars /\ WF_vars(FetchNext)

Returned(fn) == pc = "returned" /\ call.fn = fn

\* ===== PROPERTIES =====

InRange(x, lo, hi) == Leq(Num(lo), x) /\ Leq(x, Num(hi))

\* the stock index the ranker gives the current call's surplus and population under label t
IndexUnder(t) ==
  calculateStockIndex(call.surplusValue, call.allSurplusValues, t).stockIndex

\* C1: the stock index returned by calculateStockIndex, and the stockIndex field of
\* every ValuationResult, lies in [0, 100] for every surplus value (null included),
\* every comparison population and every trajectory label.
C1_StockIndexInRange ==
  /\ Returned("calculateStockIndex") => InRange(ret.stockIndex, 0, 100)
  /\ Returned("computePlayerValuation") => InRange(ret.stockIndex, 0, 100)

\* a call whose percentile plus bonus exceeds 100 and is clamped
C1_Witness ==
  /\ Returned("calculateStockIndex")
  /\ call.surplusValue # NULL
  /\ Less(Num(100), Add(ret.percentileRank, ret.trajectoryBonus))
  /\ ret.stockIndex = Num(100)

\* C2 as stated: for a non-null surplus and a non-empty population, 'rising' gives a
\* strictly greater index than 'stable' and 'declining' a strictly smaller one.
C2_StrictlyMoves ==
  (Returned("calculateStockIndex") /\ call.surplusValue # NULL /\ Len(call.allSurplusValues) > 0)
    => /\ Less(IndexUnder("stable"), IndexUnder("rising"))
       /\ Less(IndexUnder("declining"), IndexUnder("stable"))

\* C2 amended: 'rising' gives the 'stable' index plus 5 capped at 100 and 'declining'
\* the 'stable' index minus 5 floored at 0, so the index moves strictly unless the
\* 'stable' index already sits at the bound.
C2_MovesUnlessClamped ==
  (Returned("calculateStockIndex") /\ call.surplusValue # NULL /\ Len(call.allSurplusValues) > 0)
    => /\ IndexUnder("rising") = MathMin(Num(100), Add(IndexUnder("stable"), Num(5)))
       /\ IndexUnder("declining") = MathMax(Num(0), Sub(IndexUnder("stable"), Num(5)))
       /\ Less(IndexUnder("stable"), Num(100)) => Less(IndexUnder("stable"), IndexUnder("rising"))
       /\ Less(Num(0), IndexUnder("stable")) => Less(IndexUnder("declining"), IndexUnder("stable"))

\* a 'rising' call whose surplus beats the whole population: the index stays at 100
C2_Witness ==
  /\ Returned("calculateStockIndex")
  /\ call.surplusValue # NULL /\ Len(call.allSurplusValues) > 0
  /\ call.trajectory = "rising"
  /\ ret.percentileRank = Num(100)
  /\ ret.stockIndex = IndexUnder("stable")

\* C9: with a null surplus calculateStockIndex returns index 50, percentile 50 and
\* bonus 0 whatever the population and the trajectory label are.
C9_NullSurplusNeutral ==
  (Returned("calculateStockIndex") /\ call.surplusValue = NULL)
    => ret = [stockIndex |-> Num(50), percentileRank |-> Num(50), trajectoryBonus |-> Num(0)]

\* a null-surplus call with a 'rising' label and a non-empty population
C9_Witness ==
  /\ Returned("calculateStockIndex")
  /\ call.surplusValue = NULL
  /\ call.trajectory = "rising"
  /\ Len(call.allSurplusValues) > 0
  /\ ret.stockIndex = Num(50)

\* the 1-based position of season id among the history's seasons, most recent first
SeasonRank(seasonStats, id) ==
  1 + Cardinality({i \in 1..Len(seasonStats) : seasonStats[i].season > id})

\* no two records of the history carry the same season identifier
DistinctSeasons(seasonStats) ==
  \A i, j \in 1..Len(seasonStats) : i # j => seasonStats[i].season # seasonStats[j].season

\* the history's record of season id, for a history of distinct season identifiers
RecordOf(seasonStats, id) ==
  seasonStats[CHOOSE i \in 1..Len(seasonStats) : seasonStats[i].season = id]

MeetsThreshold(stats) == ~(stats.gamesPlayed < 10 \/ stats.minutes < 100)

\* C3 as stated: unqualified seasons do not consume a recency-weight slot, so the
\* k-th qualifying season in the breakdown (most recent first) carries the k-th of
\* the weights 0.6, 0.3, 0.1.
C3_WeightsByQualifyingOrder ==
  Returned("calculateWeightedImpactScore")
    => \A k \in 1..Len(ret.seasonBreakdowns) :
         ret.seasonBreakdowns[k].weight = <<Frac(6, 10), Frac(3, 10), Frac(1, 10)>>[k]

\* C3 amended: a season below the thresholds is skipped but keeps its slot.  Among
\* the three most recent seasons of the history, exactly those with gamesPlayed >= 10
\* and minutes >= 100 appear in the breakdown, most recent first, and each carries
\* the weight of its position among all seasons of the history (0.6, 0.3, 0.1).
\* Positions are those of a history whose season identifiers are pairwise distinct.
C3_WeightsByPosition ==
  (Returned("calculateWeightedImpactScore") /\ DistinctSeasons(call.seasonStats))
    => LET h == call.seasonStats
           b == ret.seasonBreakdowns
       IN /\ \A k \in 1..Len(b) :
               /\ \E i \in 1..Len(h) : h[i].season = b[k].season
               /\ SeasonRank(h, b[k].season) <= 3
               /\ MeetsThreshold(RecordOf(h, b[k].season))
               /\ b[k].weight = <<Frac(6, 10), Frac(3, 10), Frac(1, 10)>>[SeasonRank(h, b[k].season)]
          /\ \A i \in 1..Len(h) :
               (SeasonRank(h, h[i].season) <= 3 /\ MeetsThreshold(h[i]))
                 => \E k \in 1..Len(b) : b[k].season = h[i].season
          /\ \A k, l \in 1..Len(b) : k < l => b[k].season > b[l].season

\* the most recent season is below the thresholds and the next one is weighted 0.3
C3_Witness ==
  /\ Returned("calculateWeightedImpactScore")
  /\ Len(call.seasonStats) >= 2
  /\ \E i \in 1..Len(call.seasonStats) :
       /\ SeasonRank(call.seasonStats, call.seasonStats[i].season) = 1
       /\ ~MeetsThreshold(call.seasonStats[i])
  /\ Len(ret.seasonBreakdowns) >= 1
  /\ ret.seasonBreakdowns[1].weight = Frac(3, 10)

RECURSIVE SumWeights(_)
SumWeights(b) == IF b = <<>> THEN Num(0) ELSE Add(Head(b).weight, SumWeights(Tail(b)))

RECURSIVE SumWeighted(_)
SumWeighted(b) ==
  IF b = <<>> THEN Num(0)
  ELSE Add(Mul(Head(b).weight, Head(b).impactScore), SumWeighted(Tail(b)))

\* C4: weightedScore is the sum of weight x rawImpactScore over the included seasons
\* divided by the sum of their weights; it is 0 with an empty breakdown when no season
\* qualifies; with exactly one included season it equals that season's rawImpactScore.
C4_RenormalizedAverage ==
  Returned("calculateWeightedImpactScore")
    => LET h == call.seasonStats
           b == ret.seasonBreakdowns
       IN /\ \A k \in 1..Len(b) :
               \E i \in 1..Len(h) :
                 /\ h[i].season = b[k].season
                 /\ b[k].impactScore = calculateImpactScoreBreakdown(h[i]).rawImpactScore
          /\ Len(b) > 0 => Mul(ret.weightedScore, SumWeights(b)) = SumWeighted(b)
          /\ (\A i \in 1..Len(h) : ~MeetsThreshold(h[i]))
               => (ret.weightedScore = Num(0) /\ b = <<>>)
          /\ Len(b) = 1 => ret.weightedScore = b[1].impactScore

\* two seasons are included and their weights 0.6 and 0.1 do not sum to 1
C4_Witness ==
  /\ Returned("calculateWeightedImpactScore")
  /\ Len(ret.seasonBreakdowns) = 2
  /\ SumWeights(ret.seasonBreakdowns) = Frac(7, 10)
  /\ ret.seasonBreakdowns[1].impactScore # ret.seasonBreakdowns[2].impactScore

AbsNum(x) == IF x.n < 0 THEN Neg(x) ELSE x

\* the label C5 states for a list of season scores, most recent first: the score
\* rose (fell) by more than a tenth of the previous score's magnitude
StatedTrajectory(b) ==
  IF Len(b) < 2 THEN "unknown"
  ELSE LET recent == b[1].impactScore
           previous == b[2].impactScore
           tenth == Mul(Frac(1, 10), AbsNum(previous))
       IN IF Less(tenth, Sub(recent, previous)) THEN "rising"
          ELSE IF Less(tenth, Sub(previous, recent)) THEN "declining"
          ELSE "stable"

\* C5: determineTrajectory returns 'unknown' for fewer than two scores, 'rising' when
\* the score increased from the previous to the recent season by more than 10%,
\* 'declining' when it decreased by more than 10% and 'stable' otherwise (exactly 10%
\* is 'stable'), for every pair of scores, negative ones included.
C5_TrajectoryFollowsChange ==
  Returned("determineTrajectory") => ret.trajectory = StatedTrajectory(call.seasonBreakdowns)

\* the claim restricted to positive previous scores, where the code agrees with it
C5_PositivePrevious ==
  (Returned("determineTrajectory") /\ Len(call.seasonBreakdowns) >= 2
     /\ Less(Num(0), call.seasonBreakdowns[2].impactScore))
    => ret.trajectory = StatedTrajectory(call.seasonBreakdowns)

\* the season scorer produces a negative raw impact score for a qualifying season
C5_NegativeScoreProduced ==
  /\ Returned("calculateWeightedImpactScore")
  /\ \E k \in 1..Len(ret.seasonBreakdowns) : Less(ret.seasonBreakdowns[k].impactScore, Num(0))

\* C6: the age factor is 1 on [26, 28], 1 + min(0.005 (26 - age), 0.10) below 26 and
\* 1 - min(0.01 (age - 28), 0.10) above 28; it never increases with age, stays in
\* [0.90, 1.10], is 1.10 for every age <= 6 and 0.90 for every age >= 38.
C6_AgeFactorCurve ==
  Returned("calculateAgeFactor")
    => LET age == call.age
           under == 5 * (26 - age)
           over == 10 * (age - 28)
       IN /\ (age >= 26 /\ age <= 28) => ret = Num(1)
          /\ age < 26 => ret = Frac(1000 + (IF under < 100 THEN under ELSE 100), 1000)
          /\ age > 28 => ret = Frac(1000 - (IF over < 100 THEN over ELSE 100), 1000)
          /\ Leq(Frac(90, 100), ret) /\ Leq(ret, Frac(110, 100))
          /\ age <= 6 => ret = Frac(110, 100)
          /\ age >= 38 => ret = Frac(90, 100)
          /\ \A older \in age..MaxAge : Leq(calculateAgeFactor(older), ret)

\* an age past the point where the penalty reaches its cap
C6_Witness ==
  /\ Returned("calculateAgeFactor")
  /\ call.age > 38
  /\ ret = Frac(90, 100)

\* C7: calculateFairAAV maps the score 8 to 8,500,000 and the score 25 to 55,000,000
\* (within 100,000), and wherever the line through (8, 8,500,000) with slope
\* 46,500,000 / 17 stays inside the floor and the cap the output lies on that line.
C7_AnchorsAndLine ==
  Returned("calculateFairAAV")
    => LET x == call.adjustedImpactScore
           line == Add(Dollars(8500000), Mul(Div(Dollars(46500000), Num(17)), Sub(x, Num(8))))
       IN /\ x = Num(8) => Leq(AbsNum(Sub(ret, Dollars(8500000))), Dollars(100000))
          /\ x = Num(25) => Leq(AbsNum(Sub(ret, Dollars(55000000))), Dollars(100000))
          /\ (Leq(Dollars(1000000), line) /\ Leq(line, Dollars(60500000))) => ret = line

\* the call at the top anchor
C7_Witness ==
  /\ Returned("calculateFairAAV")
  /\ call.adjustedImpactScore = Num(25)
  /\ ret = Dollars(55000000)

\* C8: calculateFairAAV returns a value in [1,000,000, 60,500,000] for every score,
\* never decreases when the score grows, and the fairAAV of every ValuationResult
\* lies in the same interval.
C8_FairAAVBounded ==
  /\ Returned("calculateFairAAV")
       => /\ Leq(Dollars(1000000), ret) /\ Leq(ret, Dollars(60500000))
          /\ \A k \in (-MaxScoreHalves)..MaxScoreHalves :
               Leq(call.adjustedImpactScore, Frac(k, 2)) => Leq(ret, calculateFairAAV(Frac(k, 2)))
  /\ Returned("computePlayerValuation")
       => Leq(Dollars(1000000), ret.fairAAV) /\ Leq(ret.fairAAV, Dollars(60500000))

\* a negative score, whose unclamped value is below the floor
C8_Witness ==
  /\ Returned("calculateFairAAV")
  /\ Less(call.adjustedImpactScore, Num(0))
  /\ ret = Dollars(1000000)

\* C10: in every ValuationResult actualAAV and surplusValue are both null or both
\* non-null, and a non-null surplusValue equals fairAAV - actualAAV.
C10_SurplusMirrorsActual ==
  Returned("computePlayerValuation")
    => /\ (ret.actualAAV = NULL) <=> (ret.surplusValue = NULL)
       /\ ret.actualAAV # NULL => Add(ret.surplusValue, ret.actualAAV) = ret.fairAAV

\* a player with a compensation record who is paid more than the fair value
C10_Witness ==
  /\ Returned("computePlayerValuation")
  /\ ret.actualAAV # NULL
  /\ Less(ret.surplusValue, Num(0))

\* the rows of the compensation file, in file order
FileRows(file) == IF file = NoFile THEN <<>> ELSE ParseLines(file.lines, 2)

\* the positions of the rows for a (player identifier, season) key
RowsFor(rows, playerId, season) ==
  {i \in 1..Len(rows) : rows[i].playerId = playerId /\ rows[i].season = season}

\* the first of the rows at the positions I
FirstRow(rows, I) == rows[CHOOSE i \in I : \A j \in I : i <= j]

\* a parsed salary as an amount: the number of dollars, or NaN
SalaryAmount(salary) == IF salary = NaN THEN NaN ELSE Dollars(salary.n)

\* C11: in the ValuationResult for (playerId, currentSeason), actualAAV is null
\* exactly when the compensation file holds no row for that key, and otherwise it
\* equals the salary of the row found, whatever salary the loader parsed (0 included).
C11_ActualAAVIsRecordSalary ==
  Returned("computePlayerValuation")
    => IF RowsFor(FileRows(contractsFile), call.playerId, call.currentSeason) = {}
       THEN ret.actualAAV = NULL
       ELSE ret.actualAAV =
              SalaryAmount(FirstRow(FileRows(contractsFile),
                                    RowsFor(FileRows(contractsFile), call.playerId,
                                            call.currentSeason)).salary)

NonNegativeStats(stats) ==
  /\ stats.gamesPlayed >= 0 /\ stats.minutes >= 0 /\ stats.points >= 0
  /\ stats.assists >= 0 /\ stats.rebounds >= 0 /\ stats.steals >= 0
  /\ stats.blocks >= 0 /\ stats.turnovers >= 0
  /\ stats.fgAttempted >= 0 /\ stats.ftAttempted >= 0

\* the six components that are added
Gains(b) ==
  Add(Add(Add(Add(Add(b.pointsComponent, b.assistsComponent), b.reboundsComponent),
              b.stealsComponent), b.blocksComponent), b.tsComponent)

\* C12 as stated: every season with non-negative counting stats and points > 0 has
\* a rawImpactScore strictly greater than 0, whatever its minutes, attempts and
\* turnovers are.
C12_PositiveWheneverPoints ==
  (Returned("calculateImpactScoreBreakdown")
     /\ NonNegativeStats(call.stats) /\ call.stats.points > 0)
    => Less(Num(0), ret.rawImpactScore)

\* C12 amended: with non-negative counting stats and points > 0 the rawImpactScore
\* is strictly positive exactly when the six added components exceed the turnover
\* penalty; this is so whenever turnovers = 0 and the season has minutes or shot
\* attempts, and the score is 0 when minutes, field-goal and free-throw attempts are
\* all 0.
C12_PositiveUnlessPenaltyOrNoPlay ==
  (Returned("calculateImpactScoreBreakdown")
     /\ NonNegativeStats(call.stats) /\ call.stats.points > 0)
    => /\ Less(Num(0), ret.rawImpactScore) <=> Less(ret.turnoverPenalty, Gains(ret))
       /\ (call.stats.turnovers = 0
             /\ (call.stats.minutes > 0
                   \/ call.stats.fgAttempted + call.stats.ftAttempted > 0))
            => Less(Num(0), ret.rawImpactScore)
       /\ (call.stats.minutes = 0 /\ call.stats.fgAttempted = 0
             /\ call.stats.ftAttempted = 0)
            => ret.rawImpactScore = Num(0)

\* a season without minutes scores through its shooting alone
C12_Witness ==
  /\ Returned("calculateImpactScoreBreakdown")
  /\ call.stats.points > 0 /\ call.stats.turnovers = 0
  /\ call.stats.minutes = 0 /\ call.stats.fgAttempted > 0
  /\ Less(Num(0), ret.rawImpactScore)

\* C13: scaleToPer36(stat, 0) = 0 and calculateTrueShootingPct(points, 0, 0) = 0;
\* with minutes > 0 scaleToPer36 returns stat / minutes x 36, and with attempts
\* calculateTrueShootingPct returns points / (2 x (FGA + 0.44 x FTA)).
C13_ZeroDenominatorsYieldZero ==
  /\ Returned("scaleToPer36")
       => ret = IF call.minutes = 0 THEN Num(0)
                ELSE Frac(36 * call.stat, call.minutes)
  /\ Returned("calculateTrueShootingPct")
       => ret = IF call.fgAttempted = 0 /\ call.ftAttempted = 0 THEN Num(0)
                ELSE Frac(50 * call.points, 100 * call.fgAttempted + 44 * call.ftAttempted)

\* a stat without minutes scales to 0
C13_Witness ==
  /\ Returned("scaleToPer36")
  /\ call.minutes = 0 /\ call.stat > 0
  /\ ret = Num(0)

ResultFields ==
  {"playerId", "season", "playerAge", "currentSeasonImpactScore", "weightedImpactScore",
   "ageFactor", "adjustedImpactScore", "fairAAV", "actualAAV", "surplusValue",
   "stockIndex", "trajectory", "explanationBreakdown"}

\* C14: every computePlayerValuation call (empty history, only unqualified seasons,
\* zero minutes, zero attempts, a single qualifying season, any age, with or without
\* a compensation record) returns a ValuationResult and does not raise; its
\* trajectory is one of the four labels, its stockIndex is in [0, 100] and its
\* fairAAV is between the floor and the cap.
C14_ValuationTotal ==
  (call.fn = "computePlayerValuation" /\ pc # "called")
    => /\ pc = "returned"
       /\ DOMAIN ret = ResultFields
       /\ ret.trajectory \in Trajectories
       /\ InRange(ret.stockIndex, 0, 100)
       /\ Leq(MIN_SALARY, ret.fairAAV)
       /\ Leq(ret.fairAAV, Mul(LEAGUE_TOP_SALARY, Frac(11, 10)))

\* a history of seasons without minutes, no compensation record: the fallbacks
C14_Witness ==
  /\ Returned("computePlayerValuation")
  /\ Len(call.seasonStats) = 2
  /\ \A i \in 1..Len(call.seasonStats) : call.seasonStats[i].minutes = 0
  /\ contractsFile = NoFile
  /\ ret.weightedImpactScore = Num(0)
  /\ ret.trajectory = "unknown"
  /\ ret.fairAAV = MIN_SALARY
  /\ ret.stockIndex = Num(50)

\* C15: structurally invalid inputs are hard errors: calculateImpactScoreBreakdown
\* raises for a SeasonStats with a negative counting stat instead of returning a
\* breakdown.
C15_NegativeStatsRaise ==
  (call.fn = "calculateImpactScoreBreakdown" /\ pc # "called"
     /\ ~NonNegativeStats(call.stats))
    => pc = "threw"

\* the season identifiers of a list of records
SeasonsOf(list) == {list[i].season : i \in 1..Len(list)}

QualifyingRank(seasonStats, id) ==
  1 + Cardinality({i \in 1..Len(seasonStats) :
                     seasonStats[i].season > id /\ MeetsThreshold(seasonStats[i])})

\* C20 as stated: the breakdown holds the min(3, number of qualifying seasons) most
\* recent qualifying seasons of the history, even when more recent unqualified
\* seasons exist.
C20_ThreeMostRecentQualifying ==
  Returned("calculateWeightedImpactScore")
    => SeasonsOf(ret.seasonBreakdowns)
         = {call.seasonStats[i].season : i \in
              {j \in 1..Len(call.seasonStats) :
                 /\ MeetsThreshold(call.seasonStats[j])
                 /\ QualifyingRank(call.seasonStats, call.seasonStats[j].season) <= 3}}

\* C20 amended: the breakdown holds exactly the qualifying seasons among the three
\* most recent seasons of the history; a qualifying season older than the third most
\* recent season is not used, even when more recent seasons are unqualified.
C20_QualifyingAmongThreeMostRecent ==
  Returned("calculateWeightedImpactScore")
    => SeasonsOf(ret.seasonBreakdowns)
         = {call.seasonStats[i].season : i \in
              {j \in 1..Len(call.seasonStats) :
                 /\ MeetsThreshold(call.seasonStats[j])
                 /\ SeasonRank(call.seasonStats, call.seasonStats[j].season) <= 3}}

\* four seasons, the most recent one unqualified: the oldest qualifying season is
\* left out and two seasons are used
C20_Witness ==
  /\ Returned("calculateWeightedImpactScore")
  /\ Len(call.seasonStats) = 4
  /\ \A i \in 1..4 :
       MeetsThreshold(call.seasonStats[i])
         <=> SeasonRank(call.seasonStats, call.seasonStats[i].season) > 1
  /\ Len(ret.seasonBreakdowns) = 2

\* a step in which a caller looks the contracts up
LookupStep ==
  LoadContracts \/ GetPlayerContract \/ GetAllContractsForSeason \/ ComputePlayerValuation

\* what the lookup of the step returned is what the list rows gives
ServedFrom(rows) ==
  /\ pc' = "returned"
  /\ call'.fn = "loadContracts" => ret'.rows = rows
  /\ call'.fn = "getPlayerContract"
       => ret'.contract = FindContract(rows, call'.playerId, call'.season)
  /\ call'.fn = "getAllContractsForSeason" => ret'.rows = FilterSeason(rows, call'.season)
  /\ call'.fn = "computePlayerValuation"
       => ret'.actualAAV = ActualAAV(FindContract(rows, call'.playerId, call'.currentSeason))

CompleteLists == {FileRows(file) : file \in CacheFiles \ {MalformedFile}}

\* C17: a rebuild replaces the list as a whole.  No array is changed after it was
\* built, so the list a caller obtained before clearContractsCache and a reload keeps
\* the contents it had; contractsCache is null or refers to a completely parsed list.
C17_ReplacedNeverMutated ==
  /\ [](held # NoHeld => arrays[held.ref] = held.rows)
  /\ [](contractsCache # NoCache
          => /\ contractsCache.ref \in 1..Len(arrays)
             /\ arrays[contractsCache.ref] \in CompleteLists)
  /\ [][/\ Len(arrays') >= Len(arrays)
        /\ \A i \in 1..Len(arrays) : arrays'[i] = arrays[i]]_vars

\* a caller still holds the list of the old file while the cache refers to the list
\* rebuilt from the new one
C17_Witness ==
  /\ held # NoHeld
  /\ contractsCache # NoCache
  /\ contractsCache.ref # held.ref
  /\ arrays[held.ref] = FileRows(ContractsFile)
  /\ arrays[contractsCache.ref] = FileRows(UpdatedFile)

\* the valuation a freshly loaded module computes for a call under a file
ValuationAlone(c, file) ==
  computePlayerValuation(FileRows(file), c.playerId, c.seasonStats, c.currentSeason,
                         c.playerAge, c.allPlayersSurplusValues)

\* C18: while the file is unchanged and the cache is not invalidated in between,
\* every valuation, in whatever order the players are valued and whether or not an
\* earlier call has already loaded the cache, is the valuation the player gets when
\* valued alone; with a malformed file every valuation raises, as it does alone.
C18_ValuationsIndependent ==
  (call.fn = "computePlayerValuation" /\ pc # "called" /\ fileFixed)
    => IF contractsFile = MalformedFile THEN pc = "threw"
       ELSE pc = "returned" /\ ret = ValuationAlone(call, contractsFile)

\* both players were valued under one file with a single read; the second valuation
\* found the cache loaded by the first
C18_Witness ==
  /\ Returned("computePlayerValuation")
  /\ fileFixed
  /\ valued = Players
  /\ fileReads = 1
  /\ contractsFile = ContractsFile
  /\ call.playerId = 1
  /\ ret.actualAAV = Dollars(30000000)
\* the season list in every order
Reorderings(seasonStats) ==
  {[i \in 1..Len(seasonStats) |-> seasonStats[p[i]]] : p \in Permutations(1..Len(seasonStats))}

\* the list getPlayerContract obtains in the current state
ContractsNow == LoadedContracts(contractsCache, arrays, contractsFile)

\* the aggregator's result, or the valuation's, is the same for the call's season list in order g
SameForOrder(g) ==
  /\ Returned("calculateWeightedImpactScore") => calculateWeightedImpactScore(g) = ret
  /\ Returned("computePlayerValuation")
       => computePlayerValuation(ContractsNow, call.playerId, g, call.currentSeason,
                                 call.playerAge, call.allPlayersSurplusValues) = ret

\* C21: the order of the season list is irrelevant.  For every history and every
\* permutation of it calculateWeightedImpactScore returns the same weightedScore and
\* breakdown list and computePlayerValuation the same ValuationResult, also when two
\* records carry the same season identifier.
C21_OrderIrrelevant ==
  (Returned("calculateWeightedImpactScore") \/ Returned("computePlayerValuation"))
    => \A g \in Reorderings(call.seasonStats) : SameForOrder(g)

\* the claim restricted to histories of pairwise distinct season identifiers, where
\* the code agrees with it
C21_DistinctSeasonsOrderIrrelevant ==
  ((Returned("calculateWeightedImpactScore") \/ Returned("computePlayerValuation"))
     /\ DistinctSeasons(call.seasonStats))
    => \A g \in Reorderings(call.seasonStats) : SameForOrder(g)

\* two records of one season with different scores were aggregated: the one listed
\* first carries 0.6, the other 0.3
C21_DuplicateSeasonAggregated ==
  /\ Returned("calculateWeightedImpactScore")
  /\ Len(call.seasonStats) = 2
  /\ call.seasonStats[1].season = call.seasonStats[2].season
  /\ Len(ret.seasonBreakdowns) = 2
  /\ ret.seasonBreakdowns[1].impactScore # ret.seasonBreakdowns[2].impactScore
  /\ ret.seasonBreakdowns[1].weight = Frac(6, 10)
  /\ ret.seasonBreakdowns[2].weight = Frac(3, 10)

\* the number of elements of a list strictly below x
CountBelow(values, x) == Cardinality({i \in 1..Len(values) : Less(values[i], x)})

\* C22: for a non-null surplus, percentileRank is 100 x (number of population elements
\* strictly less than the surplus) / (population size), for the population in any
\* order and with duplicates; elements equal to the surplus are not counted; for an
\* empty population it is 50.
C22_PercentileCountsStrictlyLess ==
  (Returned("calculateStockIndex") /\ call.surplusValue # NULL)
    => ret.percentileRank
         = IF Len(call.allSurplusValues) = 0 THEN Num(50)
           ELSE Frac(100 * CountBelow(call.allSurplusValues, call.surplusValue),
                     Len(call.allSurplusValues))

\* an unsorted population holding a value twice, one element equal to the surplus and
\* one above it: one of three elements is counted
C22_Witness ==
  /\ Returned("calculateStockIndex")
  /\ call.surplusValue = Dollars(0)
  /\ call.allSurplusValues = <<Dollars(5000000), Dollars(0), Dollars(-5000000)>>
  /\ ret.percentileRank = Frac(100, 3)

\* a call of one of the three functions that take a list from the caller is in progress
ListCallInProgress ==
  /\ pc = "called"
  /\ call.fn \in {"calculateWeightedImpactScore", "calculateStockIndex", "computePlayerValuation"}

\* C23: the engine does not modify what the caller passes in.  The step that completes
\* calculateWeightedImpactScore, calculateStockIndex or computePlayerValuation leaves
\* the caller's season list and population list with the same elements in the same
\* order, and when the contracts cache is loaded it leaves the cache and every array
\* as they were.
C23_ArgumentsAndCacheUntouched ==
  [][ListCallInProgress
       => /\ call' = call
          /\ contractsCache # NoCache => (contractsCache' = contractsCache /\ arrays' = arrays)]_vars

\* a valuation returned for a season list passed oldest first and a population passed
\* out of order, with the cache loaded by an earlier valuation; the breakdown it
\* returned is most recent first
C23_Witness ==
  /\ Returned("computePlayerValuation")
  /\ call.seasonStats[1].season < call.seasonStats[2].season
  /\ call.allPlayersSurplusValues = Given(<<Dollars(5000000), Dollars(-5000000), Dollars(0)>>)
  /\ ret.surplusValue # NULL
  /\ ret.explanationBreakdown.recencyWeights[1].season = 3
  /\ contractsCache # NoCache
  /\ fileReads = 1
  /\ valued = Players

\* the bonus the claim states for a trajectory label
StatedBonus(trajectory) ==
  IF trajectory = "rising" THEN Num(5)
  ELSE IF trajectory = "declining" THEN Num(-5) ELSE Num(0)

\* the figures of a ValuationResult that do not involve the trajectory bonus agree
\* with its explanation
ReconstructsFromExplanation(r) ==
  /\ r.adjustedImpactScore = Mul(r.weightedImpactScore, r.ageFactor)
  /\ r.explanationBreakdown.agingAdjustment.adjustmentPercent
       = Mul(Sub(r.ageFactor, Num(1)), Num(100))
  /\ r.stockIndex
       = MathMin(Num(100), MathMax(Num(0),
           Add(r.explanationBreakdown.stockIndexCalculation.percentileRank,
               r.explanationBreakdown.stockIndexCalculation.trajectoryBonus)))
  /\ r.explanationBreakdown.stockIndexCalculation.surplusValue = r.surplusValue

\* C24 as stated: every ValuationResult can be reconstructed from its explanation, and
\* trajectoryBonus is +5 exactly when trajectory is 'rising', -5 exactly when it is
\* 'declining' and 0 otherwise.
C24_ReconstructsWithBonusOfTrajectory ==
  Returned("computePlayerValuation")
    => /\ ReconstructsFromExplanation(ret)
       /\ ret.explanationBreakdown.stockIndexCalculation.trajectoryBonus
            = StatedBonus(ret.trajectory)

\* C24 amended: the reconstruction holds for every result; the bonus is that of the
\* trajectory when the surplus is not null, and 0 with percentileRank 50 and
\* stockIndex 50 when the surplus is null, whatever the trajectory.
C24_ReconstructsWithBonusUnlessNull ==
  Returned("computePlayerValuation")
    => /\ ReconstructsFromExplanation(ret)
       /\ ret.surplusValue # NULL
            => ret.explanationBreakdown.stockIndexCalculation.trajectoryBonus
                 = StatedBonus(ret.trajectory)
       /\ ret.surplusValue = NULL
            => /\ ret.explanationBreakdown.stockIndexCalculation.trajectoryBonus = Num(0)
               /\ ret.explanationBreakdown.stockIndexCalculation.percentileRank = Num(50)
               /\ ret.stockIndex = Num(50)

\* a young player with a compensation record on a rising trajectory: the age factor
\* scales the score, the bonus is +5 and the index is clamped or not
C24_Witness ==
  /\ Returned("computePlayerValuation")
  /\ ret.surplusValue # NULL
  /\ ret.trajectory = "rising"
  /\ ret.explanationBreakdown.stockIndexCalculation.trajectoryBonus = Num(5)
  /\ ret.ageFactor # Num(1)
  /\ ret.weightedImpactScore # Num(0)
  /\ ret.adjustedImpactScore # ret.weightedImpactScore

\* a rising player without a usable compensation record: the bonus is 0
C24_RisingWithoutSurplus ==
  /\ Returned("computePlayerValuation")
  /\ ret.surplusValue = NULL
  /\ ret.trajectory = "rising"
  /\ ret.explanationBreakdown.stockIndexCalculation.trajectoryBonus = Num(0)

\* C25: when the previous season's impact score is 0, determineTrajectory raises no
\* error and its result depends only on the sign of the recent score: 'rising' if
\* recent > 0, 'declining' if recent < 0 and 'stable' if recent is 0 as well.
C25_ZeroPreviousFollowsSign ==
  (call.fn = "determineTrajectory" /\ pc # "called")
    => /\ pc = "returned"
       /\ (Len(call.seasonBreakdowns) >= 2 /\ IsZero(call.seasonBreakdowns[2].impactScore))
            => ret.trajectory
                 = IF Less(Num(0), call.seasonBreakdowns[1].impactScore) THEN "rising"
                   ELSE IF Less(call.seasonBreakdowns[1].impactScore, Num(0)) THEN "declining"
                   ELSE "stable"

\* a negative recent score over a previous score of 0: the change is -Infinity
C25_Witness ==
  /\ Returned("determineTrajectory")
  /\ Len(call.seasonBreakdowns) >= 2
  /\ IsZero(call.seasonBreakdowns[2].impactScore)
  /\ Less(call.seasonBreakdowns[1].impactScore, Num(0))
  /\ ret.trajectory = "declining"

\* a header-only file is stored as an empty list, and a stored empty list is served
\* without reading the file
EmptyListIsCached ==
  /\ [][(LookupStep /\ contractsCache = NoCache /\ contractsFile = HeaderOnlyFile)
          => /\ contractsCache' # NoCache
             /\ arrays'[contractsCache'.ref] = <<>>
             /\ ServedFrom(<<>>)]_vars
  /\ [][(LookupStep /\ contractsCache # NoCache /\ arrays[contractsCache.ref] = <<>>)
          => /\ fileReads' = fileReads
             /\ contractsCache' = contractsCache
             /\ ServedFrom(<<>>)]_vars

\* C26 as stated: while the file does not exist every lookup returns nothing (an empty
\* list, no record) and leaves the cache unset; as soon as the file exists the next
\* lookup loads and caches it without clearContractsCache; a header-only file is
\* cached as an empty list and not read again until invalidation.
C26_MissingFileNeverServedOrCached ==
  /\ [][(LookupStep /\ contractsFile = NoFile)
          => (ServedFrom(<<>>) /\ contractsCache' = NoCache)]_vars
  /\ [][(LookupStep /\ contractsFile # NoFile /\ contractsCache = NoCache)
          => /\ contractsCache' # NoCache
             /\ arrays'[contractsCache'.ref] = FileRows(contractsFile)
             /\ fileReads' = fileReads + 1]_vars
  /\ EmptyListIsCached

\* C26 amended: the same while the cache is unset and for files whose rows all have
\* four fields.  A list cached before the file disappeared keeps being served, and a
\* file with a shorter row makes the lookup raise after the read, caching nothing.
C26_MissingFileNotCached ==
  /\ [][(LookupStep /\ contractsFile = NoFile /\ contractsCache = NoCache)
          => (ServedFrom(<<>>) /\ contractsCache' = NoCache /\ fileReads' = fileReads)]_vars
  /\ [][(LookupStep /\ contractsFile # NoFile /\ contractsCache = NoCache)
          => /\ fileReads' = fileReads + 1
             /\ IF ParseThrows(contractsFile.lines, 2)
                THEN pc' = "threw" /\ contractsCache' = NoCache
                ELSE /\ contractsCache' # NoCache
                     /\ arrays'[contractsCache'.ref] = FileRows(contractsFile)
                     /\ ServedFrom(FileRows(contractsFile))]_vars
  /\ EmptyListIsCached

\* a header-only file was cached as an empty list earlier; after invalidation and with
\* the file gone, loadContracts returned an empty list and cached nothing
C26_Witness ==
  /\ pc = "returned" /\ call.fn = "loadContracts"
  /\ ret.rows = <<>>
  /\ contractsFile = NoFile
  /\ contractsCache = NoCache
  /\ fileReads = 1
  /\ arrays = <<(<<>>)>>

\* rows cached while the file existed are served although the file is gone
C26_ServedAfterFileRemoved ==
  /\ pc = "returned" /\ call.fn = "loadContracts"
  /\ contractsFile = NoFile
  /\ ret.rows # <<>>

\* what C29 states about a returned valuation: without a population the player is
\* ranked against its own surplus alone, with an explicitly empty one the rank is 50
RankedAgainstItself ==
  /\ call.allPlayersSurplusValues = Undefined
       => /\ ret.explanationBreakdown.stockIndexCalculation.percentileRank = Num(0)
          /\ ret.stockIndex = IF ret.trajectory = "rising" THEN Num(5) ELSE Num(0)
  /\ call.allPlayersSurplusValues = Given(<<>>)
       => ret.explanationBreakdown.stockIndexCalculation.percentileRank = Num(50)

\* C29: when computePlayerValuation is called without a comparison population and the
\* player has a compensation record, percentileRank is 0 and stockIndex is 5 if the
\* trajectory is 'rising' and 0 otherwise, whatever the surplus; an explicitly passed
\* empty population gives percentileRank 50.
C29_OwnSurplusRanksZero ==
  (Returned("computePlayerValuation")
     /\ FindContract(ContractsNow, call.playerId, call.currentSeason) # NULL)
    => RankedAgainstItself

\* the claim for the players whose record yields a non-null actualAAV, where the code
\* agrees with it
C29_OwnSurplusRanksZeroWhenPaid ==
  (Returned("computePlayerValuation") /\ ret.actualAAV # NULL) => RankedAgainstItself

\* a rising player with a paid record and no population: rank 0, index 5
C29_RisingAgainstItself ==
  /\ Returned("computePlayerValuation")
  /\ call.allPlayersSurplusValues = Undefined
  /\ ret.actualAAV # NULL
  /\ ret.trajectory = "rising"
  /\ ret.stockIndex = Num(5)

\* fetchNBAData is done: it returned or threw
FetchDone == call.fn = "fetchNBAData" /\ pc \in {"returned", "threw"}

Failed(answer) == answer # Pending /\ answer # Answered(200)

\* C27: fetchNBAData always terminates, after at most `retries` upstream requests.
\* It returns the response data of the first attempt answered with status 200 and
\* issues no request after it; if no attempt is answered 200 it throws after the last
\* attempt; a request is issued only after every earlier one failed.
C27_TerminatesWithinRetries ==
  /\ <>FetchDone
  /\ [](Len(requests) <= call.retries)
  /\ [](\A i \in 1..(Len(requests) - 1) : Failed(requests[i]))
  /\ []((FetchDone /\ pc = "returned")
          => /\ Len(requests) >= 1
             /\ requests[Len(requests)] = Answered(200)
             /\ ret.data = [responseOfAttempt |-> Len(requests)])
  /\ []((FetchDone /\ pc = "threw")
          => /\ Len(requests) = call.retries
             /\ \A i \in 1..Len(requests) : Failed(requests[i]))
  /\ [][FetchDone => UNCHANGED requests]_vars
  /\ [][requests' # requests /\ Len(requests') > Len(requests)
          => (attempt = Len(requests) + 1 /\ \A i \in 1..Len(requests) : Failed(requests[i]))]_vars

\* the third attempt of three is answered 200 after a timeout and a 404
C27_Witness ==
  /\ FetchDone /\ pc = "returned"
  /\ call.retries = 3
  /\ requests = <<TimedOut, Answered(404), Answered(200)>>
  /\ ret.data = [responseOfAttempt |-> 3]

\* the error fetchNBAData throws for the failed answer of attempt k
ErrorOf(answer, k) ==
  IF answer.kind = "response" /\ answer.status < 500
  THEN NBAApiError(answer.status, k) ELSE AxiosError(answer, k)

\* C30: every failed attempt that is not the last one is followed by another attempt,
\* whatever the failure (a status below 500 other than 200, a 5xx status, a timeout),
\* and the error finally thrown is that of the last attempt.
C30_EveryFailureRetried ==
  /\ \A k \in 1..MaxRetries :
        (Len(requests) = k /\ Failed(requests[k]) /\ k < call.retries) ~> (Len(requests) = k + 1)
  /\ [][(pc = "requesting" /\ Failed(requests'[Len(requests)]) /\ attempt < call.retries)
          => (pc' = "waiting" /\ ret'.delay = attempt * 2000)]_vars
  /\ []((FetchDone /\ pc = "threw" /\ Len(requests) >= 1)
          => ret.error = ErrorOf(requests[Len(requests)], Len(requests)))

\* a 404 at the first attempt was followed by a second attempt, whose timeout is the
\* error thrown
C30_Witness ==
  /\ FetchDone /\ pc = "threw"
  /\ call.retries = 2
  /\ requests = <<Answered(404), TimedOut>>
  /\ ret.error = AxiosError(TimedOut, 2)

\* the route answered with a valuation
RouteAnswered == Returned("valuationRoute") /\ ret.status = 200

\* the season's contracts and the population the route built from them
SeasonContracts == FilterSeason(ContractsNow, call.currentSeason)

\* with a population of zeros only: rank 100 above zero, rank 0 otherwise, and the
\* index one of 0, 5, 95, 100
RankedAgainstZeros(r) ==
  /\ r.explanationBreakdown.stockIndexCalculation.percentileRank
       = IF Less(Num(0), r.surplusValue) THEN Num(100) ELSE Num(0)
  /\ r.stockIndex \in {Num(0), Num(5), Num(95), Num(100)}

\* C28: in the valuation route every element of the comparison population is (in
\* exact arithmetic) 0; hence for a player with a compensation record the
\* percentileRank is 100 when the surplus is > 0 and 0 when it is <= 0 and the
\* stockIndex is one of 0, 5, 95, 100, and the stockIndex is 50 when the player has
\* no record.
C28_PopulationAllZero ==
  RouteAnswered
    => /\ \A i \in 1..Len(SeasonContracts) : EstimatedSurplus(SeasonContracts[i]) = Num(0)
       /\ IF FindContract(ContractsNow, call.playerId, call.currentSeason) # NULL
          THEN ret.valuation.surplusValue # NULL /\ RankedAgainstZeros(ret.valuation)
          ELSE ret.valuation.stockIndex = Num(50)

\* the claim for a season in which every salary parsed and for players whose
\* actualAAV is not null, where the code agrees with it
C28_AllZeroWhenSalariesParse ==
  (RouteAnswered /\ \A i \in 1..Len(SeasonContracts) : SeasonContracts[i].salary # NaN)
    => /\ \A i \in 1..Len(SeasonContracts) : EstimatedSurplus(SeasonContracts[i]) = Num(0)
       /\ IF ret.valuation.actualAAV # NULL
          THEN RankedAgainstZeros(ret.valuation)
          ELSE ret.valuation.stockIndex = Num(50)

\* a paid player ranked 100 against a population of two zeros
C28_RankedAboveZeros ==
  /\ RouteAnswered
  /\ Len(SeasonContracts) = 2
  /\ ret.valuation.actualAAV # NULL
  /\ Less(Num(0), ret.valuation.surplusValue)
  /\ ret.valuation.explanationBreakdown.stockIndexCalculation.percentileRank = Num(100)

\* a NaN in the population stops the count: a positive surplus is ranked 50
C28_RankedHalfwayByNaN ==
  /\ RouteAnswered
  /\ ret.valuation.surplusValue # NULL
  /\ Less(Num(0), ret.valuation.surplusValue)
  /\ ret.valuation.explanationBreakdown.stockIndexCalculation.percentileRank = Num(50)

====
